---- MODULE Spec2Model ----
(***************************************************************************)
(* Voice-Diary: the database access layer (db_utils/db_manager.py) and the *)
(* file router's move_file (file_utils/mv_files.py).                       *)
(*                                                                         *)
(* Database layer.  The Python call stack is the variable `stack`; every   *)
(* function of db_manager.py is an action made of its steps: the call, the *)
(* acquisition of the connection, the statements run on it, the release.   *)
(* The statements of one transaction run on a single connection that no    *)
(* one else sees before the commit, so they form one step, which draws the *)
(* statement that fails (if any) from the environment.  Python's None is   *)
(* "None" for strings and 0 for ids (a SERIAL id is never 0).              *)
(* conn.rollback() and pool.putconn() in the handlers are taken to         *)
(* succeed.  A SERIAL column hands out the next id above the table's rows  *)
(* (the gaps a rolled-back transaction leaves in a sequence are not        *)
(* modelled), and a timestamp is the tick at which its row was inserted,   *)
(* which is that id.                                                       *)
(***************************************************************************)
EXTENDS Integers, Sequences, FiniteSets, TLC

\* ------------------------------------------------------------------ bounds
MaxId == 2
MaxOpt == 1
MaxPools == 2
MaxMoves == 3
MaxFiles == 2
MaxAudio == 2
MaxRange == 3
MaxPrompts == 3
MaxFolders == 2
MaxItems == 2
TicksPerDay == 2
MaxPolls == 2
MaxRuns == 2
MaxClock == 4

\* ------------------------------------------------------------------ inputs
None == "None"
Contents == {None, "c1"}
Files == {[filename |-> "a.mp3", audio_path |-> None],
          [filename |-> "a.mp3", audio_path |-> "/rec"],
          [filename |-> "b.mp3", audio_path |-> "/rec"]}
CategoryNames == {"", "work", "home"}
Limits == {1, 10}

VARIABLES
    connection_pool,  \* db_manager.connection_pool: 0 is None, n > 0 the n-th pool object
    poolCount,        \* pool objects constructed so far
    used,             \* connections checked out of the pool and not yet put back
    schema,           \* TRUE when the four tables and the indexes exist on the server
    db,               \* committed rows of the four tables
    stack,            \* Python call stack, top at the end
    exc,              \* TRUE while an exception travels from a callee to its caller
    entry,            \* committed rows and pool when the outermost call started
    raised,           \* TRUE when the call that completed last raised to the script
    saved,            \* successful save_transcription calls: what was given, what came back
    initRan,          \* TRUE when initialize_db has run since the last close
    dest,             \* mv_files: the files of the destination directory
    mf,               \* mv_files: the running move_file call, its locals and position
    moves,            \* mv_files: move_file calls made so far
    source,           \* mv_files: the entries of the source directory
    pf,               \* mv_files: the running process_files call, its locals and position
    config,           \* mv_files: the configuration dictionary main() loaded
    gdrive,           \* mv_files: the downloader's configuration file on disk
    audio_dir,        \* transcribe_raw_audio: the files of the downloads directory
    tr,               \* transcribe_raw_audio: the running run_transcribe, its locals and position
    sd,               \* summarize_day: the running summarize_day, its locals and position
    drive,            \* dwnload_files: the folders of the Google Drive and their files
    dl,               \* dwnload_files: the running main(), its locals and position
    downloads,        \* dwnload_files: the files of the local downloads directory
    gf,               \* dwnload_files: a call of generate_filename_with_timestamp
    ag,               \* agent_summarize_day: the runs of process_with_openai_assistant
    ex                \* one execution of a script, from its start to its exit status

dbVars == <<connection_pool, poolCount, used, schema, db, stack, exc, entry,
            raised, saved, initRan>>
routerVars == <<dest, mf, moves>>
procVars == <<source, pf, config, gdrive>>
trVars == <<audio_dir, tr>>
sdVars == <<sd, ag>>
dlVars == <<drive, dl, downloads, gf>>
exVars == <<ex>>
extVars == <<trVars, sdVars, dlVars, exVars>>
vars == <<dbVars, routerVars, procVars, extVars>>

\* ------------------------------------------------------------ Python values
PyNone == [type |-> "NoneType", n |-> 0, rows |-> <<>>]
PyInt(i) == [type |-> "int", n |-> i, rows |-> <<>>]
PyBool(b) == [type |-> "bool", n |-> IF b THEN 1 ELSE 0, rows |-> <<>>]
PyList(s) == [type |-> "list", n |-> 0, rows |-> s]
PyDict(id) == [type |-> "dict", n |-> id, rows |-> <<>>]

\* `if x:` on a str-or-None argument
Truthy(s) == s /= None /\ s /= ""

Min(a, b) == IF a < b THEN a ELSE b

\* ------------------------------------------------------------------ tables
EmptyDb == [categories |-> {}, transcriptions |-> {}, processed_files |-> {},
            optimize_transcriptions |-> {}]

NoEntry == [db |-> EmptyDb, pool |-> 0]

\* ------------------------------------------------------------- call stack
Frame(fn, pc) == [fn |-> fn, pc |-> pc, conn |-> FALSE, raising |-> FALSE,
                  failed |-> FALSE, val |-> PyNone]
Top == stack[Len(stack)]
At(fn, pc) == stack /= <<>> /\ Top.fn = fn /\ Top.pc = pc
SetTop(f) == [stack EXCEPT ![Len(stack)] = f]
\* the frame at its last statement: what it returns, or that it raises
Outcome(val, raising, failed) ==
    SetTop([Top EXCEPT !.pc = "return", !.val = val, !.raising = raising,
                       !.failed = failed])
\* call g from the top frame, which resumes at pc
Push(pc, g) == Append(SetTop([Top EXCEPT !.pc = pc]), Frame(g, "start"))

\* One step of the running function: the stack afterwards.  A pending
\* exception has been taken over by the step.
Step(s) ==
    /\ stack' = s
    /\ exc' = FALSE
    /\ UNCHANGED <<entry, raised>>

\* Leave the top frame, with a return or, when raising, with an exception.
\* An exception leaving the outermost frame reaches the script.
Return(raising) ==
    /\ stack' = SubSeq(stack, 1, Len(stack) - 1)
    /\ IF Len(stack) = 1
       THEN /\ raised' = raising
            /\ exc' = FALSE
            /\ entry' = NoEntry
       ELSE /\ exc' = raising
            /\ UNCHANGED <<raised, entry>>

\* A call from the script of a function whose first statement is
\* `conn = get_connection()`: its frame waits at pc for the connection.
Enter(fn, pc) ==
    /\ stack = <<>>
    /\ stack' = <<Frame(fn, pc), Frame("get_connection", "start")>>
    /\ entry' = [db |-> db, pool |-> connection_pool]
    /\ exc' = FALSE
    /\ raised' = FALSE

\* ------------------------------------------------------- return_connection
\* pool.putconn(conn) when a pool exists
return_connection ==
    used' = IF connection_pool /= 0 THEN used - 1 ELSE used

Finally_OnSuccessOnly ==
    IF Top.conn /\ ~Top.failed THEN return_connection ELSE UNCHANGED used

\* finally: if conn: return_connection(conn)
Finally ==
    IF Top.conn THEN return_connection ELSE UNCHANGED used

\* ---------------------------------------------------------- get_connection
get_connection_start_Always ==
    /\ At("get_connection", "start")
    /\ Step(Push("getconn", "initialize_db"))
    /\ initRan' = TRUE
    /\ UNCHANGED <<connection_pool, poolCount, used, schema, db, saved, routerVars, procVars, extVars>>

\* if connection_pool is None: initialize_db()
get_connection_start ==
    /\ At("get_connection", "start")
    /\ IF connection_pool = 0
       THEN /\ Step(Push("getconn", "initialize_db"))
            /\ initRan' = TRUE
       ELSE /\ Step(SetTop([Top EXCEPT !.pc = "getconn"]))
            /\ UNCHANGED initRan
    /\ UNCHANGED <<connection_pool, poolCount, used, schema, db, saved, routerVars, procVars, extVars>>

\* `return connection_pool.getconn()`: AttributeError on None, else the pool
\* hands out a connection or raises
get_connection_getconn ==
    /\ At("get_connection", "getconn")
    /\ \E ok \in BOOLEAN :
          IF ok /\ connection_pool /= 0
          THEN /\ used' = used + 1
               /\ Return(FALSE)
          ELSE /\ Return(TRUE)
               /\ UNCHANGED used
    /\ UNCHANGED <<connection_pool, poolCount, schema, db, saved, initRan, routerVars, procVars, extVars>>

get_connection == get_connection_start \/ get_connection_getconn

\* ----------------------------------------------------------- initialize_db
initialize_db_call ==
    /\ stack = <<>>
    /\ stack' = <<Frame("initialize_db", "start")>>
    /\ entry' = [db |-> db, pool |-> connection_pool]
    /\ exc' = FALSE
    /\ raised' = FALSE
    /\ initRan' = TRUE
    /\ UNCHANGED <<connection_pool, poolCount, used, schema, db, saved, routerVars, procVars, extVars>>

\* get_db_url() and pool.SimpleConnectionPool(1, 10, db_url), then the call
\* of create_tables(); an exception goes to the handler, which returns False
initialize_db_pool ==
    /\ At("initialize_db", "start")
    /\ \E ok \in BOOLEAN :
          IF ok /\ poolCount < MaxPools
          THEN /\ connection_pool' = poolCount + 1
               /\ poolCount' = poolCount + 1
               /\ Step(Append(Push("created", "create_tables"),
                              Frame("get_connection", "start")))
          ELSE /\ Step(Outcome(PyBool(FALSE), FALSE, TRUE))
               /\ UNCHANGED <<connection_pool, poolCount>>
    /\ UNCHANGED <<used, schema, db, saved, initRan, routerVars, procVars, extVars>>

initialize_db_created_Reraise ==
    /\ At("initialize_db", "created")
    /\ Step(Outcome(PyBool(~exc), exc, exc))
    /\ UNCHANGED <<connection_pool, poolCount, used, schema, db, saved,
                   initRan, routerVars, procVars, extVars>>

\* create_tables() returned: `return True`; it raised: `return False`
initialize_db_created ==
    /\ At("initialize_db", "created")
    /\ Step(Outcome(PyBool(~exc), FALSE, exc))
    /\ UNCHANGED <<connection_pool, poolCount, used, schema, db, saved,
                   initRan, routerVars, procVars, extVars>>

initialize_db_return ==
    /\ At("initialize_db", "return")
    /\ Return(Top.raising)
    /\ UNCHANGED <<connection_pool, poolCount, used, schema, db, saved,
                   initRan, routerVars, procVars, extVars>>

initialize_db ==
    \/ initialize_db_call
    \/ initialize_db_pool
    \/ initialize_db_created
    \/ initialize_db_return

\* ----------------------------------------------------------- create_tables
create_tables_call ==
    /\ Enter("create_tables", "start")
    /\ UNCHANGED <<connection_pool, poolCount, used, schema, db, saved,
                   initRan, routerVars, procVars, extVars>>

\* conn = get_connection() raised: conn is None, the handler re-raises and
\* the finally clause returns nothing.  Otherwise the CREATE TABLE / CREATE
\* INDEX IF NOT EXISTS statements and conn.commit(); when one of them fails,
\* conn.rollback() and `raise`.
create_tables_execute ==
    /\ At("create_tables", "start")
    /\ IF exc
       THEN /\ Step(Outcome(PyNone, TRUE, TRUE))
            /\ UNCHANGED schema
       ELSE \E ok \in BOOLEAN :
               /\ schema' = (schema \/ ok)
               /\ Step(SetTop([Outcome(PyNone, ~ok, ~ok)[Len(stack)]
                                   EXCEPT !.conn = TRUE]))
    /\ UNCHANGED <<connection_pool, poolCount, used, db, saved, initRan, routerVars, procVars, extVars>>

create_tables_return ==
    /\ At("create_tables", "return")
    /\ Finally
    /\ Return(Top.raising)
    /\ UNCHANGED <<connection_pool, poolCount, schema, db, saved, initRan, routerVars, procVars, extVars>>

create_tables == create_tables_call \/ create_tables_execute \/ create_tables_return

\* ------------------------------------------------------- save_transcription
\* the next value of a SERIAL column
NextId(rows) ==
    IF rows = {} THEN 1
    ELSE (CHOOSE r \in rows : \A q \in rows : r.id >= q.id).id + 1

\* INSERT INTO categories (name) VALUES (name)
\* ON CONFLICT (name) DO UPDATE SET name = EXCLUDED.name RETURNING id:
\* the rows afterwards, and the id returned.  new is the id the sequence
\* hands out.
CategoryUpsertRows_PlainInsert(rows, name, new) ==
    rows \cup {[id |-> new, name |-> name]}

CategoryUpsertRows(rows, name, new) ==
    IF \E r \in rows : r.name = name
    THEN rows
    ELSE rows \cup {[id |-> new, name |-> name]}

CategoryUpsertId_Fresh(rows, name, new) == new

CategoryUpsertId(rows, name, new) ==
    IF \E r \in rows : r.name = name
    THEN (CHOOSE r \in rows : r.name = name).id
    ELSE new

TranscriptionInsertRows_Recategorise(rows, id, content, f, category_id) ==
    {[r EXCEPT !.category_id = category_id] : r \in rows}
       \cup {[id |-> id, content |-> content, filename |-> f.filename,
               audio_path |-> f.audio_path, category_id |-> category_id,
               created_at |-> id]}

\* INSERT INTO transcriptions (...) VALUES (...) RETURNING id
TranscriptionInsertRows(rows, id, content, f, category_id) ==
    rows \cup {[id |-> id, content |-> content, filename |-> f.filename,
                audio_path |-> f.audio_path, category_id |-> category_id,
                created_at |-> id]}

ProcessedUpsertRows_DoNothing(rows, f, status, tid, new) ==
    IF \E r \in rows : r.filename = f.filename
    THEN rows
    ELSE rows \cup {[id |-> new, filename |-> f.filename, file_path |-> f.audio_path,
                     processed_at |-> tid, status |-> status,
                     transcription_id |-> tid]}

\* INSERT INTO processed_files (filename, file_path, status, transcription_id)
\* ON CONFLICT (filename) DO UPDATE SET processed_at = CURRENT_TIMESTAMP,
\* status = EXCLUDED.status, transcription_id = EXCLUDED.transcription_id
ProcessedUpsertRows(rows, f, status, tid, new) ==
    IF \E r \in rows : r.filename = f.filename
    THEN {IF r.filename = f.filename
          THEN [r EXCEPT !.processed_at = tid, !.status = status,
                         !.transcription_id = tid]
          ELSE r : r \in rows}
    ELSE rows \cup {[id |-> new, filename |-> f.filename, file_path |-> f.audio_path,
                     processed_at |-> tid, status |-> status,
                     transcription_id |-> tid]}

EndTransaction_NoRollback(ok, committed, written) == written

\* conn.commit() makes the transaction's rows the committed ones;
\* conn.rollback() in the handler leaves the committed ones
EndTransaction(ok, committed, written) == IF ok THEN written ELSE committed

\* The statements at which the environment can make a call fail
FailPoints == {"none", "category", "insert", "processed", "commit"}

save_transcription_call ==
    /\ Cardinality(db.transcriptions) < MaxId
    /\ Enter("save_transcription", "start")
    /\ UNCHANGED <<connection_pool, poolCount, used, schema, db, saved,
                   initRan, routerVars, procVars, extVars>>

\* The try block after conn = get_connection(), for the arguments
\* (content c, filename and audio_path f, category g), and the handler:
\*   if category: upsert by name, category_id = cur.fetchone()[0]
\*   insert the transcription (content is NOT NULL)
\*   if filename and audio_path: upsert the processed_files row
\*   conn.commit(); return transcription_id
\*   except: if conn: conn.rollback(); return None
save_transcription_execute ==
    /\ At("save_transcription", "start")
    /\ \E c \in Contents, f \in Files, g \in CategoryNames, fail \in FailPoints :
        LET catRan == ~exc /\ Truthy(g) /\ fail /= "category" /\ schema
            catFailed == ~exc /\ Truthy(g) /\ ~catRan
            category_id == IF catRan
                           THEN CategoryUpsertId(db.categories, g, NextId(db.categories))
                           ELSE 0
            insRan == /\ ~exc /\ ~catFailed
                      /\ fail /= "insert" /\ schema /\ c /= None
            transcription_id == NextId(db.transcriptions)
            doProc == Truthy(f.filename) /\ Truthy(f.audio_path)
            procRan == insRan /\ doProc /\ fail /= "processed"
            procFailed == insRan /\ doProc /\ ~procRan
            ok == insRan /\ ~procFailed /\ fail /= "commit"
            written ==
              [db EXCEPT
                 !.categories = IF catRan
                                THEN CategoryUpsertRows(@, g, NextId(@)) ELSE @,
                 !.transcriptions = TranscriptionInsertRows(@, transcription_id,
                                                            c, f, category_id),
                 !.processed_files = IF procRan
                                     THEN ProcessedUpsertRows(@, f, "completed",
                                              transcription_id, NextId(@))
                                     ELSE @]
        IN /\ db' = EndTransaction(ok, db, written)
           /\ saved' = IF ok
                       THEN saved \cup {[n |-> Cardinality(saved) + 1,
                                         id |-> transcription_id,
                                         filename |-> f.filename,
                                         audio_path |-> f.audio_path,
                                         category |-> g]}
                       ELSE saved
           /\ Step(SetTop([Outcome(IF ok THEN PyInt(transcription_id) ELSE PyNone,
                                   FALSE, ~ok)[Len(stack)]
                               EXCEPT !.conn = ~exc]))
    /\ UNCHANGED <<connection_pool, poolCount, used, schema, initRan, routerVars, procVars, extVars>>

save_transcription_return ==
    /\ At("save_transcription", "return")
    /\ Finally
    /\ Return(Top.raising)
    /\ UNCHANGED <<connection_pool, poolCount, schema, db, saved, initRan, routerVars, procVars, extVars>>

save_transcription ==
    \/ save_transcription_call
    \/ save_transcription_execute
    \/ save_transcription_return

\* --------------------------------------------- save_optimized_transcription
\* INSERT INTO optimize_transcriptions (content, original_transcription_id,
\* metadata) VALUES (...) RETURNING id
OptimizedInsertRows(rows, id, content, original_transcription_id) ==
    rows \cup {[id |-> id, content |-> content,
                original_transcription_id |-> original_transcription_id,
                created_at |-> id]}

save_optimized_transcription_call ==
    /\ Cardinality(db.optimize_transcriptions) < MaxOpt
    /\ Enter("save_optimized_transcription", "start")
    /\ UNCHANGED <<connection_pool, poolCount, used, schema, db, saved,
                   initRan, routerVars, procVars, extVars>>

\* The try block and the handler, for the arguments (content c,
\* original_transcription_id i); content is NOT NULL and
\* original_transcription_id REFERENCES transcriptions(id)
save_optimized_transcription_execute ==
    /\ At("save_optimized_transcription", "start")
    /\ \E c \in Contents, i \in 0..MaxId, fail \in {"none", "insert", "commit"} :
        LET insRan == /\ ~exc /\ fail /= "insert" /\ schema /\ c /= None
                      /\ (i = 0 \/ \E t \in db.transcriptions : t.id = i)
            ok == insRan /\ fail /= "commit"
            written == [db EXCEPT !.optimize_transcriptions =
                                     OptimizedInsertRows(@, NextId(@), c, i)]
        IN /\ db' = EndTransaction(ok, db, written)
           /\ Step(SetTop([Outcome(IF ok
                                       THEN PyInt(NextId(db.optimize_transcriptions))
                                       ELSE PyNone,
                                   FALSE, ~ok)[Len(stack)]
                               EXCEPT !.conn = ~exc]))
    /\ UNCHANGED <<connection_pool, poolCount, used, schema, saved, initRan, routerVars, procVars, extVars>>

save_optimized_transcription_return ==
    /\ At("save_optimized_transcription", "return")
    /\ Finally
    /\ Return(Top.raising)
    /\ UNCHANGED <<connection_pool, poolCount, schema, db, saved, initRan, routerVars, procVars, extVars>>

save_optimized_transcription ==
    \/ save_optimized_transcription_call
    \/ save_optimized_transcription_execute
    \/ save_optimized_transcription_return

\* -------------------------------------------------------------- read paths
\* ORDER BY created_at DESC, as the sequence of the rows' ids
RECURSIVE NewestFirst(_)
NewestFirst(rows) ==
    IF rows = {} THEN <<>>
    ELSE LET r == CHOOSE x \in rows : \A q \in rows : x.created_at >= q.created_at
         IN <<r.id>> \o NewestFirst(rows \ {r})

\* ORDER BY created_at
RECURSIVE OldestFirst(_)
OldestFirst(rows) ==
    IF rows = {} THEN <<>>
    ELSE LET r == CHOOSE x \in rows : \A q \in rows : x.created_at <= q.created_at
         IN <<r.id>> \o OldestFirst(rows \ {r})

\* LIMIT n
Limit(s, n) == SubSeq(s, 1, Min(n, Len(s)))

\* DATE_TRUNC('day', t)
Day(t) == t \div TicksPerDay

\* cur.fetchone() of SELECT ... WHERE t.id = id on the tables d: the row, or
\* None
FetchTranscription(d, id) ==
    IF \E t \in d.transcriptions : t.id = id THEN PyDict(id) ELSE PyNone

\* cur.fetchall() of the four list queries
FetchLatestTranscriptions(d, n) == PyList(Limit(NewestFirst(d.transcriptions), n))

FetchTranscriptionsByDateRange(d, from, to) ==
    PyList(NewestFirst({t \in d.transcriptions :
                           from <= t.created_at /\ t.created_at <= to}))

FetchLatestOptimized(d, n) == PyList(Limit(NewestFirst(d.optimize_transcriptions), n))

FetchOptimizedByDate(d, day) ==
    PyList(OldestFirst({o \in d.optimize_transcriptions : Day(o.created_at) = day}))

\* The five read functions share their shape.
ReadCall(fn) ==
    /\ Enter(fn, "start")
    /\ UNCHANGED <<connection_pool, poolCount, used, schema, db, saved,
                   initRan, routerVars, procVars, extVars>>

ReadExecute_Reraise(fn, valid, result, onError) ==
    /\ At(fn, "start")
    /\ \E fail \in BOOLEAN :
          LET ok == ~exc /\ ~fail /\ schema /\ valid
          IN Step(SetTop([Outcome(IF ok THEN result ELSE onError, ~ok, ~ok)[Len(stack)]
                             EXCEPT !.conn = ~exc]))
    /\ UNCHANGED <<connection_pool, poolCount, used, schema, db, saved,
                   initRan, routerVars, procVars, extVars>>

\* The try block after conn = get_connection(): execute and fetch, and the
\* handler `return onError`.  valid is FALSE when the server rejects the
\* parameters.
ReadExecute(fn, valid, result, onError) ==
    /\ At(fn, "start")
    /\ \E fail \in BOOLEAN :
          LET ok == ~exc /\ ~fail /\ schema /\ valid
          IN Step(SetTop([Outcome(IF ok THEN result ELSE onError, FALSE, ~ok)[Len(stack)]
                             EXCEPT !.conn = ~exc]))
    /\ UNCHANGED <<connection_pool, poolCount, used, schema, db, saved,
                   initRan, routerVars, procVars, extVars>>

ReadReturn(fn) ==
    /\ At(fn, "return")
    /\ Finally
    /\ Return(Top.raising)
    /\ UNCHANGED <<connection_pool, poolCount, schema, db, saved, initRan, routerVars, procVars, extVars>>

get_transcription ==
    \/ ReadCall("get_transcription")
    \/ \E i \in 1..MaxId :
          ReadExecute("get_transcription", TRUE, FetchTranscription(db, i), PyNone)
    \/ ReadReturn("get_transcription")

get_latest_transcriptions ==
    \/ ReadCall("get_latest_transcriptions")
    \/ \E n \in Limits :
          ReadExecute("get_latest_transcriptions", TRUE,
                      FetchLatestTranscriptions(db, n), PyList(<<>>))
    \/ ReadReturn("get_latest_transcriptions")

get_transcriptions_by_date_range ==
    \/ ReadCall("get_transcriptions_by_date_range")
    \/ \E a \in 1..MaxId, b \in 1..MaxId :
          ReadExecute("get_transcriptions_by_date_range", TRUE,
                      FetchTranscriptionsByDateRange(db, a, b), PyList(<<>>))
    \/ ReadReturn("get_transcriptions_by_date_range")

get_latest_optimized_transcriptions ==
    \/ ReadCall("get_latest_optimized_transcriptions")
    \/ \E n \in Limits :
          ReadExecute("get_latest_optimized_transcriptions", TRUE,
                      FetchLatestOptimized(db, n), PyList(<<>>))
    \/ ReadReturn("get_latest_optimized_transcriptions")

\* a date_str that is no date (-1 here) makes %s::timestamp fail on the server
get_optimized_transcriptions_by_date ==
    \/ ReadCall("get_optimized_transcriptions_by_date")
    \/ \E d \in -1..Day(MaxOpt) :
          ReadExecute("get_optimized_transcriptions_by_date", d >= 0,
                      FetchOptimizedByDate(db, d), PyList(<<>>))
    \/ ReadReturn("get_optimized_transcriptions_by_date")

\* --------------------------------------------------- close_all_connections
close_all_connections_NoGuard ==
    /\ stack = <<>>
    /\ IF connection_pool /= 0
       THEN connection_pool' = 0 /\ raised' = FALSE
       ELSE raised' = TRUE /\ UNCHANGED connection_pool
    /\ initRan' = FALSE
    /\ UNCHANGED <<poolCount, used, schema, db, stack, exc, entry, saved, routerVars, procVars, extVars>>

\* if connection_pool: connection_pool.closeall(); connection_pool = None
close_all_connections ==
    /\ stack = <<>>
    /\ IF connection_pool /= 0
       THEN connection_pool' = 0
       ELSE UNCHANGED connection_pool
    /\ initRan' = FALSE
    /\ raised' = FALSE
    /\ UNCHANGED <<poolCount, used, schema, db, stack, exc, entry, saved, routerVars, procVars, extVars>>

\* ================================================================ mv_files
\* A file name is the sequence of its characters.
NameA == <<"a", ".", "t">>
NameA1 == <<"a", "_", "1", ".", "t">>
NameA2 == <<"a", "_", "2", ".", "t">>
NameBare == <<"a">>
NameDot == <<".", "a">>
SrcNames == {NameA, NameA1, NameBare, NameDot}
\* files that can be in the destination directory before the first call
PreFiles == {[name |-> NameA, data |-> 0], [name |-> NameA1, data |-> 0],
             [name |-> NameA2, data |-> 0]}

\* str.rfind('.'), counted from 1; 0 when there is no dot
RFindDot(name) ==
    IF \E i \in 1..Len(name) : name[i] = "."
    THEN CHOOSE i \in 1..Len(name) :
            name[i] = "." /\ \A j \in (i + 1)..Len(name) : name[j] /= "."
    ELSE 0

\* PurePath.suffix: from the last dot on, unless the dot leads or ends the name
Suffix(name) ==
    LET i == RFindDot(name)
    IN IF 1 < i /\ i < Len(name) THEN SubSeq(name, i, Len(name)) ELSE <<>>

\* PurePath.stem
Stem(name) ==
    LET i == RFindDot(name)
    IN IF 1 < i /\ i < Len(name) THEN SubSeq(name, 1, i - 1) ELSE name

\* str(counter) in an f-string
RECURSIVE Digits(_)
Digits(k) ==
    LET d == <<"0", "1", "2", "3", "4", "5", "6", "7", "8", "9">>
    IN IF k < 10 THEN <<d[k + 1]>> ELSE Digits(k \div 10) \o <<d[(k % 10) + 1]>>

\* f"{base_name}_{counter}{extension}"
NewName(base_name, counter, extension) ==
    base_name \o <<"_">> \o Digits(counter) \o extension

\* destination_path.exists()
Exists(dir, name) == \E f \in dir : f.name = name

\* the directory after data was written to name: an existing file of that
\* name is replaced
WriteFile(dir, name, data) ==
    {f \in dir : f.name /= name} \cup {[name |-> name, data |-> data]}

NoMove == [pc |-> "idle", file_path |-> <<>>, data |-> 0, delete_source |-> FALSE,
           destination_path |-> <<>>, base_name |-> <<>>, extension |-> <<>>,
           counter |-> 0, ret |-> None]

\* move_file(file_path, destination_dir, logger, delete_source): the source
\* file is told apart from every other file by its data
move_file_call ==
    /\ mf.pc = "idle"
    /\ moves < MaxMoves
    /\ moves' = moves + 1
    /\ \E n \in SrcNames, d \in BOOLEAN :
          mf' = [NoMove EXCEPT !.pc = "mkdir", !.file_path = n,
                               !.data = moves + 1, !.delete_source = d]
    /\ UNCHANGED <<dest, dbVars, procVars, extVars>>

\* destination_dir.mkdir(parents=True, exist_ok=True), which can raise;
\* destination_path = destination_dir / file_path.name;
\* if destination_path.exists(): base_name, extension, counter = 1
move_file_path ==
    /\ mf.pc = "mkdir"
    /\ \E ok \in BOOLEAN :
          mf' = IF ~ok
                THEN [mf EXCEPT !.pc = "idle", !.ret = "False"]
                ELSE IF Exists(dest, mf.file_path)
                THEN [mf EXCEPT !.pc = "while", !.destination_path = mf.file_path,
                                !.base_name = Stem(mf.file_path),
                                !.extension = Suffix(mf.file_path),
                                !.counter = 1]
                ELSE [mf EXCEPT !.pc = "copy", !.destination_path = mf.file_path]
    /\ UNCHANGED <<dest, moves, dbVars, procVars, extVars>>

move_file_while_Once ==
    /\ mf.pc = "while"
    /\ mf' = [mf EXCEPT !.pc = "copy",
                        !.destination_path =
                           NewName(mf.base_name, mf.counter, mf.extension),
                        !.counter = mf.counter + 1]
    /\ UNCHANGED <<dest, moves, dbVars, procVars, extVars>>

\* while destination_path.exists(): new_name, destination_path, counter += 1
move_file_while ==
    /\ mf.pc = "while"
    /\ mf' = IF Exists(dest, mf.destination_path)
             THEN [mf EXCEPT !.destination_path =
                                NewName(mf.base_name, mf.counter, mf.extension),
                             !.counter = mf.counter + 1]
             ELSE [mf EXCEPT !.pc = "copy"]
    /\ UNCHANGED <<dest, moves, dbVars, procVars, extVars>>

\* shutil.move or shutil.copy2 to destination_path, return True; when it
\* raises, return False, and what it had written of the file stays (the
\* negated data stands for the partial file).  shutil.move takes the file
\* out of the source directory once it is at its destination.
move_file_copy ==
    /\ mf.pc = "copy"
    /\ \E ok \in BOOLEAN, partial \in BOOLEAN :
          IF ok
          THEN /\ dest' = WriteFile(dest, mf.destination_path, mf.data)
               /\ source' = IF mf.delete_source
                            THEN {f \in source : f.data /= mf.data}
                            ELSE source
               /\ mf' = [mf EXCEPT !.pc = "idle", !.ret = "True"]
          ELSE /\ dest' = IF partial
                          THEN WriteFile(dest, mf.destination_path, -mf.data)
                          ELSE dest
               /\ mf' = [mf EXCEPT !.pc = "idle", !.ret = "False"]
               /\ UNCHANGED source
    /\ UNCHANGED <<moves, dbVars, pf, config, gdrive, extVars>>

move_file ==
    \/ move_file_call
    \/ move_file_path
    \/ move_file_while
    \/ move_file_copy

\* ------------------------------------------------- mv_files: process_files
\* file extensions, as the lists of the configuration hold them
ExtT == <<".", "t">>
ExtU == <<".", "u">>
ExtV == <<".", "v">>

\* the three categories, in the order in which the code looks at them
Categories == <<"audio_file_types", "image_file_types", "video_file_types">>

\* the extension lists of the local configuration file
LocalExtensions ==
    [audio_file_types |-> <<ExtT>>, image_file_types |-> <<ExtU>>,
     video_file_types |-> <<ExtV>>]

\* the include-lists the downloader's configuration can hold
GdriveInclude ==
    [audio_file_types |-> <<ExtT, ExtU>>, image_file_types |-> <<ExtV>>,
     video_file_types |-> <<ExtU>>]

\* The local configurations: each category enabled or not, and
\* processing.delete_source_after_move.
Configs ==
    {[audio_file_types |-> [enabled |-> a, extensions |-> LocalExtensions.audio_file_types],
      image_file_types |-> [enabled |-> i, extensions |-> LocalExtensions.image_file_types],
      video_file_types |-> [enabled |-> v, extensions |-> LocalExtensions.video_file_types],
      delete_source_after_move |-> d] : a, i, v, d \in BOOLEAN}

\* What the downloader's JSON file holds under a category key: nothing (the
\* key is absent), null, an object without "include", or an object with an
\* include-list.
JsonAbsent == [kind |-> "absent", has_include |-> FALSE, include |-> <<>>]
JsonNull == [kind |-> "null", has_include |-> FALSE, include |-> <<>>]
JsonObject(has, list) == [kind |-> "object", has_include |-> has, include |-> list]
JsonEntries(c) ==
    {JsonAbsent, JsonNull, JsonObject(FALSE, <<>>), JsonObject(TRUE, <<>>),
     JsonObject(TRUE, GdriveInclude[c])}

\* the downloader's configuration file: missing, not JSON, or a JSON object
GdriveFile(state, a, i, v) ==
    [file |-> state, audio_file_types |-> a, image_file_types |-> i,
     video_file_types |-> v]
GdriveFiles ==
    {GdriveFile("missing", JsonAbsent, JsonAbsent, JsonAbsent),
     GdriveFile("invalid", JsonAbsent, JsonAbsent, JsonAbsent)}
       \cup {GdriveFile("json", a, i, v) :
                a \in JsonEntries("audio_file_types"),
                i \in JsonEntries("image_file_types"),
                v \in {JsonAbsent, JsonObject(TRUE, GdriveInclude.video_file_types)}}

\* `'include' in gdrive_config[key]` raises TypeError on null
InRaises(e) == e.kind = "null"

\* `key in gdrive_config and 'include' in gdrive_config[key]`
HasInclude(e) == e.kind = "object" /\ e.has_include

\* get_extensions_from_gdrive_config(): the three lists start empty; a
\* missing file returns them so, and an exception (json.load, or the test of
\* a category) ends the reading with the lists filled up to there
get_extensions_from_gdrive_config(g) ==
    LET a == g.audio_file_types
        i == g.image_file_types
        v == g.video_file_types
        read == g.file = "json"
    IN [audio_file_types |->
            IF read /\ HasInclude(a) THEN a.include ELSE <<>>,
        image_file_types |->
            IF read /\ ~InRaises(a) /\ HasInclude(i) THEN i.include ELSE <<>>,
        video_file_types |->
            IF read /\ ~InRaises(a) /\ ~InRaises(i) /\ HasInclude(v)
            THEN v.include ELSE <<>>]

\* if gdrive_extensions[c] and merged_config[c]['enabled']:
\*     merged_config[c]['extensions'] = gdrive_extensions[c]
MergeCategory(local, gdrive_list) ==
    IF gdrive_list /= <<>> /\ local.enabled
    THEN [local EXCEPT !.extensions = gdrive_list]
    ELSE local

\* merge_config_with_gdrive_extensions(config): the dictionary it returns
merge_config_with_gdrive_extensions(c, g) ==
    LET gdrive_extensions == get_extensions_from_gdrive_config(g)
    IN [c EXCEPT
          !.audio_file_types =
              MergeCategory(c.audio_file_types, gdrive_extensions.audio_file_types),
          !.image_file_types =
              MergeCategory(c.image_file_types, gdrive_extensions.image_file_types),
          !.video_file_types =
              MergeCategory(c.video_file_types, gdrive_extensions.video_file_types)]

\* str.lower() on a name
UpperCase == <<"A", "B", "C", "D", "T", "U", "V">>
LowerCase == <<"a", "b", "c", "d", "t", "u", "v">>
LowerChar(ch) ==
    IF \E k \in 1..Len(UpperCase) : UpperCase[k] = ch
    THEN LowerCase[CHOOSE k \in 1..Len(UpperCase) : UpperCase[k] = ch]
    ELSE ch
Lower(name) == [k \in 1..Len(name) |-> LowerChar(name[k])]

\* `x in list`
InList(x, list) == \E k \in 1..Len(list) : list[k] = x

\* get_file_type(file_path, config): 'audio', 'image', 'video' or None
get_file_type(file_path, cfg) ==
    LET extension == Lower(Suffix(file_path))
    IN IF cfg.audio_file_types.enabled
          /\ InList(extension, cfg.audio_file_types.extensions) THEN "audio"
       ELSE IF cfg.image_file_types.enabled
          /\ InList(extension, cfg.image_file_types.extensions) THEN "image"
       ELSE IF cfg.video_file_types.enabled
          /\ InList(extension, cfg.video_file_types.extensions) THEN "video"
       ELSE None

\* the entries the source directory can hold: regular files and a directory
NameUpper == <<"b", ".", "T">>
NameImage == <<"c", ".", "u">>
NameDir == <<"d">>
SourceEntries ==
    {[name |-> NameA, data |-> 11, is_file |-> TRUE],
     [name |-> NameUpper, data |-> 12, is_file |-> TRUE],
     [name |-> NameImage, data |-> 13, is_file |-> TRUE],
     [name |-> NameBare, data |-> 14, is_file |-> TRUE],
     [name |-> NameDir, data |-> 15, is_file |-> FALSE]}

\* the orders in which iterdir() can yield the entries of a directory
Listings(dir) ==
    {l \in [1..Cardinality(dir) -> dir] :
        \A j, k \in 1..Cardinality(dir) : l[j] = l[k] => j = k}

NoProcess(c) ==
    [pc |-> "start", merged_config |-> c, files |-> <<>>, i |-> 1,
     file_type |-> None, files_processed |-> 0, files_failed |-> 0]

\* merged_config = merge_config_with_gdrive_extensions(config).  config.copy()
\* copies the top level only: the category dictionaries the merge assigns to
\* are those of config, which therefore reads as merged_config afterwards.
process_files_merge ==
    /\ pf.pc = "start"
    /\ LET merged_config == merge_config_with_gdrive_extensions(config, gdrive)
       IN /\ pf' = [pf EXCEPT !.pc = "dirs", !.merged_config = merged_config]
          /\ config' = merged_config
    /\ UNCHANGED <<source, gdrive, routerVars, dbVars, extVars>>

\* ensure_directories_exist(...), whose mkdir can raise out of process_files;
\* then the listing of the source directory.  A source directory that does
\* not exist gives the result of an empty one.
process_files_dirs ==
    /\ pf.pc = "dirs"
    /\ \E ok \in BOOLEAN, l \in Listings(source) :
          pf' = IF ok
                THEN [pf EXCEPT !.pc = "loop", !.files = l, !.i = 1]
                ELSE [pf EXCEPT !.pc = "raised"]
    /\ UNCHANGED <<source, config, gdrive, routerVars, dbVars, extVars>>

process_files_file_CountSkipped ==
    /\ pf.pc = "loop"
    /\ pf.i <= Len(pf.files)
    /\ mf.pc = "idle"
    /\ LET file_path == pf.files[pf.i]
           file_type == get_file_type(file_path.name, pf.merged_config)
       IN IF file_path.is_file /\ file_type /= None
          THEN /\ pf' = [pf EXCEPT !.pc = "moving", !.file_type = file_type]
               /\ mf' = [NoMove EXCEPT
                           !.pc = "mkdir", !.file_path = file_path.name,
                           !.data = file_path.data,
                           !.delete_source =
                               pf.merged_config.delete_source_after_move]
          ELSE /\ pf' = [pf EXCEPT !.i = pf.i + 1, !.file_type = None,
                                   !.files_processed =
                                       IF file_path.is_file THEN @ + 1 ELSE @]
               /\ UNCHANGED mf
    /\ UNCHANGED <<source, config, gdrive, dest, moves, dbVars, extVars>>

\* for file_path in source_dir.iterdir(): if file_path.is_file():
\*     file_type = get_file_type(file_path, merged_config)
\* and the call of move_file for a file of a known type; any other entry is
\* passed over
process_files_file ==
    /\ pf.pc = "loop"
    /\ pf.i <= Len(pf.files)
    /\ mf.pc = "idle"
    /\ LET file_path == pf.files[pf.i]
           file_type == get_file_type(file_path.name, pf.merged_config)
       IN IF file_path.is_file /\ file_type /= None
          THEN /\ pf' = [pf EXCEPT !.pc = "moving", !.file_type = file_type]
               /\ mf' = [NoMove EXCEPT
                           !.pc = "mkdir", !.file_path = file_path.name,
                           !.data = file_path.data,
                           !.delete_source =
                               pf.merged_config.delete_source_after_move]
          ELSE /\ pf' = [pf EXCEPT !.i = pf.i + 1, !.file_type = None]
               /\ UNCHANGED mf
    /\ UNCHANGED <<source, config, gdrive, dest, moves, dbVars, extVars>>

\* move_file returned: if success and file_type is not None:
\* files_processed += 1, elif not success: files_failed += 1
process_files_moved ==
    /\ pf.pc = "moving"
    /\ mf.pc = "idle"
    /\ LET success == (mf.ret = "True")
       IN pf' = [pf EXCEPT
                   !.pc = "loop", !.i = pf.i + 1,
                   !.files_processed =
                       IF success /\ pf.file_type /= None THEN @ + 1 ELSE @,
                   !.files_failed =
                       IF success /\ pf.file_type /= None THEN @
                       ELSE IF ~success THEN @ + 1 ELSE @]
    /\ UNCHANGED <<source, config, gdrive, routerVars, dbVars, extVars>>

\* return files_processed, files_failed
process_files_return ==
    /\ pf.pc = "loop"
    /\ pf.i > Len(pf.files)
    /\ pf' = [pf EXCEPT !.pc = "done"]
    /\ UNCHANGED <<source, config, gdrive, routerVars, dbVars, extVars>>

process_files ==
    \/ process_files_merge
    \/ process_files_dirs
    \/ process_files_file
    \/ process_files_moved
    \/ process_files_return

\* ================================================== transcribe_raw_audio
\* file names of the downloads directory
NameStamp == <<"2", "0", "2", "4", "0", "1", "0", "2", "_", "0", "3", "0", "4", "0", "5", ".", "m">>
NamePrefixed == <<"r", "_", "2", "0", "2", "4", "0", "1", "0", "1", "_", "0", "0", "0", "0", "0", "0", ".", "m">>
NameMonth13 == <<"2", "0", "2", "4", "1", "3", "0", "1", "_", "0", "0", "0", "0", "0", "0", ".", "m">>
NameMemo == <<"m", "e", "m", "o", ".", "m">>
NameTwoStamps == <<"1", "2", "3", "4", "5", "6", "7", "8", "_", "2", "0", "2", "4", "0", "1", "0", "1", "_", "1", "2", "0", "0", "0", "0", ".", "m">>
NameOther == <<"x", ".", "n">>
AudioNames == {NameStamp, NamePrefixed, NameMonth13, NameMemo, NameTwoStamps,
               NameOther}

\* a datetime: the date as YYYYMMDD and the time as HHMMSS, two numbers
DateTime(date, time) == [date |-> date, time |-> time]
\* the creation times a file can have
CTimes == {DateTime(20240101, 120000), DateTime(20240103, 0)}

\* include-lists of audio_file_types that the downloader's file can hold;
\* None when the file cannot be read
ExtM == <<".", "m">>
ExtN == <<".", "n">>
AudioExtensions == {None, <<>>, <<ExtM>>, <<ExtM, ExtN>>}

DigitChars == <<"0", "1", "2", "3", "4", "5", "6", "7", "8", "9">>
IsDigit(ch) == \E k \in 1..10 : DigitChars[k] = ch
DigitValue(ch) == (CHOOSE k \in 1..10 : DigitChars[k] = ch) - 1

\* int() of a string of digits
RECURSIVE Number(_)
Number(str) ==
    IF str = <<>> THEN 0
    ELSE 10 * Number(SubSeq(str, 1, Len(str) - 1)) + DigitValue(str[Len(str)])

AllDigits(str) == \A k \in 1..Len(str) : IsDigit(str[k])

\* the calendar of datetime
IsLeap(year) == (year % 4 = 0 /\ year % 100 /= 0) \/ year % 400 = 0
DaysInMonth(year, month) ==
    IF month = 2 THEN (IF IsLeap(year) THEN 29 ELSE 28)
    ELSE IF month \in {4, 6, 9, 11} THEN 30 ELSE 31
\* datetime(year, month, day) raises ValueError outside of these
ValidDate(year, month, day) ==
    /\ 1 <= year /\ year <= 9999
    /\ 1 <= month /\ month <= 12
    /\ 1 <= day /\ day <= DaysInMonth(year, month)

\* r'(\d{8}_\d{6})' matches the name from position k on
StampAt(name, k) ==
    /\ k + 14 <= Len(name)
    /\ AllDigits(SubSeq(name, k, k + 7))
    /\ name[k + 8] = "_"
    /\ AllDigits(SubSeq(name, k + 9, k + 14))

\* re.search: where the leftmost match starts, 0 for no match
SearchStamp(name) ==
    IF \E k \in 1..Len(name) : StampAt(name, k)
    THEN CHOOSE k \in 1..Len(name) :
            StampAt(name, k) /\ \A j \in 1..(k - 1) : ~StampAt(name, j)
    ELSE 0

\* datetime.strptime(timestamp_str, "%Y%m%d_%H%M%S") raises no ValueError
StrptimeValid(str) ==
    /\ ValidDate(Number(SubSeq(str, 1, 4)), Number(SubSeq(str, 5, 6)),
                 Number(SubSeq(str, 7, 8)))
    /\ Number(SubSeq(str, 10, 11)) <= 23
    /\ Number(SubSeq(str, 12, 13)) <= 59
    /\ Number(SubSeq(str, 14, 15)) <= 59

Strptime(str) == DateTime(Number(SubSeq(str, 1, 8)), Number(SubSeq(str, 10, 15)))

\* get_timestamp_from_filename(filepath): the sort key of a file
get_timestamp_from_filename(filepath) ==
    LET k == SearchStamp(filepath.name)
        timestamp_str == SubSeq(filepath.name, k, k + 14)
    IN IF k /= 0 /\ StrptimeValid(timestamp_str)
       THEN Strptime(timestamp_str)
       ELSE filepath.ctime

\* datetime a <= datetime b
NotAfter(a, b) == a.date < b.date \/ (a.date = b.date /\ a.time <= b.time)

\* sorted(list, key=get_timestamp_from_filename): ascending, and files of
\* equal key stay in the order of the list
RECURSIVE Sorted(_)
Sorted(list) ==
    IF list = <<>> THEN <<>>
    ELSE LET n == Len(list)
             x == list[n]
             front == Sorted(SubSeq(list, 1, n - 1))
             keep == {k \in 1..(n - 1) :
                         NotAfter(get_timestamp_from_filename(front[k]),
                                  get_timestamp_from_filename(x))}
             at == Cardinality(keep)
         IN SubSeq(front, 1, at) \o <<x>> \o SubSeq(front, at + 1, n - 1)

\* directory.glob(f"*{ext}"): the files whose name ends in ext
EndsWith(name, ext) ==
    Len(ext) <= Len(name) /\ SubSeq(name, Len(name) - Len(ext) + 1, Len(name)) = ext
Glob(dir, ext) == {f \in dir : EndsWith(f.name, ext)}

\* for ext in audio_extensions: audio_files.extend(directory.glob(...)):
\* the lists this can build, a glob yielding its files in any order
RECURSIVE GlobAll(_, _)
GlobAll(dir, exts) ==
    IF exts = <<>> THEN {<<>>}
    ELSE {l \o rest : l \in Listings(Glob(dir, exts[1])),
                      rest \in GlobAll(dir, SubSeq(exts, 2, Len(exts)))}

\* what transcribe_audio_file can meet: the file cannot be measured or
\* opened, the API call raises, the API returns an empty text, or a text
Outcomes == {"unreadable", "api_error", "empty", "text"}

NoRun ==
    [pc |-> "idle", found |-> FALSE, audio_extensions |-> <<>>,
     audio_files |-> <<>>, i |-> 1, transcriptions |-> <<>>,
     all_transcriptions |-> <<>>, submitted |-> <<>>, outputs |-> <<>>,
     ret |-> None]

\* audio_files = get_audio_files(downloads_dir).  A missing directory gives
\* the empty list.  Without the downloader's file
\* get_audio_extensions_from_gdrive_config() returns None, the for loop over
\* it raises TypeError, and run_transcribe exits with status 1.
get_audio_files ==
    /\ tr.pc = "start"
    /\ CASE ~tr.found ->
              tr' = [tr EXCEPT !.pc = "process", !.i = 1, !.audio_files = <<>>]
         [] tr.found /\ tr.audio_extensions = None ->
              tr' = [tr EXCEPT !.pc = "exit"]
         [] OTHER ->
              \E audio_files \in GlobAll(audio_dir, tr.audio_extensions) :
                 tr' = [tr EXCEPT !.pc = "process", !.i = 1,
                                  !.audio_files = Sorted(audio_files)]
    /\ UNCHANGED <<audio_dir, dbVars, routerVars, procVars, exVars, sdVars, dlVars>>

\* if not audio_files: return False
process_audio_files_none ==
    /\ tr.pc = "process"
    /\ tr.audio_files = <<>>
    /\ tr' = [tr EXCEPT !.pc = "done", !.ret = "False"]
    /\ UNCHANGED <<audio_dir, dbVars, routerVars, procVars, exVars, sdVars, dlVars>>

process_audio_files_file_StopOnFailure ==
    /\ tr.pc = "process"
    /\ tr.i <= Len(tr.audio_files)
    /\ \E outcome \in Outcomes :
          LET file_path == tr.audio_files[tr.i]
              transcription == CASE outcome = "text" -> "text"
                                 [] outcome = "empty" -> ""
                                 [] OTHER -> None
          IN tr' = [tr EXCEPT
                      !.i = IF transcription = None
                            THEN Len(tr.audio_files) + 1 ELSE tr.i + 1,
                      !.submitted = IF outcome = "unreadable" THEN @
                                    ELSE Append(@, file_path.name),
                      !.transcriptions = Append(@, transcription),
                      !.all_transcriptions =
                          IF Truthy(transcription) THEN Append(@, file_path.name)
                          ELSE @]
    /\ UNCHANGED <<audio_dir, dbVars, routerVars, procVars, exVars, sdVars, dlVars>>

\* One pass of `for file_path in audio_files`:
\* transcription = transcribe_audio_file(client, file_path), which returns the
\* text, or None after any exception; if transcription: append the entry
process_audio_files_file ==
    /\ tr.pc = "process"
    /\ tr.i <= Len(tr.audio_files)
    /\ \E outcome \in Outcomes :
          LET file_path == tr.audio_files[tr.i]
              transcription == CASE outcome = "text" -> "text"
                                 [] outcome = "empty" -> ""
                                 [] OTHER -> None
          IN tr' = [tr EXCEPT
                      !.i = tr.i + 1,
                      !.submitted = IF outcome = "unreadable" THEN @
                                    ELSE Append(@, file_path.name),
                      !.transcriptions = Append(@, transcription),
                      !.all_transcriptions =
                          IF Truthy(transcription) THEN Append(@, file_path.name)
                          ELSE @]
    /\ UNCHANGED <<audio_dir, dbVars, routerVars, procVars, exVars, sdVars, dlVars>>

\* After the loop: if all_transcriptions: save_transcription(combined_text,
\* ...) and return True, whatever save_transcription returned; else return
\* False.  save_transcription writes the text once it has opened the file.
process_audio_files_save ==
    /\ tr.pc = "process"
    /\ tr.audio_files /= <<>>
    /\ tr.i > Len(tr.audio_files)
    /\ IF tr.all_transcriptions /= <<>>
       THEN \E opened \in BOOLEAN :
               tr' = [tr EXCEPT
                        !.pc = "done", !.ret = "True",
                        !.outputs = IF opened
                                    THEN Append(@, tr.all_transcriptions)
                                    ELSE @]
       ELSE tr' = [tr EXCEPT !.pc = "done", !.ret = "False"]
    /\ UNCHANGED <<audio_dir, dbVars, routerVars, procVars, exVars, sdVars, dlVars>>

process_audio_files ==
    \/ process_audio_files_none
    \/ process_audio_files_file
    \/ process_audio_files_save

\* ------------------------------------------------------------ summarize_day
\* An entry of "date_range" in the configuration file: a JSON number or a
\* JSON string.
JsonInt(n) == [type |-> "int", value |-> n]
JsonStr(str) == [type |-> "str", value |-> str]

\* the entries a configuration may hold: two days, an impossible month, an
\* impossible day, six, seven and nine digits, and a word
RangeEntries ==
    {JsonInt(20240101), JsonInt(20240103), JsonInt(20241301), JsonInt(20240230),
     JsonInt(202401), JsonInt(2024011), JsonInt(202401011),
     JsonStr(<<"j", "a", "n">>)}

\* config.get("date_range", []): lists of at most MaxRange entries
RECURSIVE ListsUpTo(_, _)
ListsUpTo(S, n) ==
    IF n = 0 THEN {<<>>}
    ELSE ListsUpTo(S, n - 1)
            \cup {Append(l, e) : l \in {m \in ListsUpTo(S, n - 1) : Len(m) = n - 1},
                                 e \in S}

DateRanges == ListsUpTo(RangeEntries, MaxRange)

\* datetime.now()
Now == DateTime(20240615, 101500)

\* the value date_from_int returns for a date it cannot build
NoDate == DateTime(0, 0)

\* str(date_int)
Str(date_int) ==
    IF date_int.type = "int" THEN Digits(date_int.value) ELSE date_int.value

\* date_str[a:b]
Slice(str, a, b) ==
    SubSeq(str, a + 1, IF b <= Len(str) THEN b ELSE Len(str))

\* int(text) raises no ValueError: text is a non-empty string of digits
\* (signs, blanks and underscores are not among the modelled entries)
IntValid(text) == text /= <<>> /\ AllDigits(text)

\* date_from_int: the first eight characters of str(date_int) are cut into
\* year, month and day; ValueError gives None
date_from_int(date_int) ==
    LET date_str == Str(date_int)
        y == Slice(date_str, 0, 4)
        m == Slice(date_str, 4, 6)
        d == Slice(date_str, 6, 8)
    IN IF /\ IntValid(y) /\ IntValid(m) /\ IntValid(d)
          /\ ValidDate(Number(y), Number(m), Number(d))
       THEN DateTime(Number(y) * 10000 + Number(m) * 100 + Number(d), 0)
       ELSE NoDate

\* get_date_range: the pair (start_date, end_date)
get_date_range(date_range) ==
    IF date_range = <<>> THEN <<Now, Now>>
    ELSE IF Len(date_range) = 1
    THEN LET start_date == date_from_int(date_range[1])
         IN IF start_date = NoDate THEN <<Now, Now>>
            ELSE <<start_date, start_date>>
    ELSE LET start_date == date_from_int(date_range[1])
             end_date == date_from_int(date_range[2])
         IN IF start_date = NoDate \/ end_date = NoDate THEN <<Now, Now>>
            ELSE <<start_date, end_date>>

\* An entry of prompts.yaml.  The third prompt has no template:
\* prompt_data.get('template', '') is the empty string.
PromptNames == <<"p1", "p2", "p3">>
Template(name) == IF name = "p3" THEN "" ELSE name

\* load_prompts(): at most MaxPrompts entries of distinct names, in the order
\* of the file
Prompts ==
    {l \in ListsUpTo({[name |-> PromptNames[k], active |-> a,
                       template |-> Template(PromptNames[k])] :
                         k \in 1..Len(PromptNames),
                         a \in BOOLEAN}, MaxPrompts) :
        \A j, k \in 1..Len(l) : j /= k => l[j].name /= l[k].name}

\* get_active_prompt on multiple active prompts returning the last of them
get_active_prompt_Last(prompts) ==
    LET active_prompts == SelectSeq(prompts, LAMBDA e : e.active)
    IN CASE Len(active_prompts) = 1 ->
              [name |-> active_prompts[1].name,
               template |-> active_prompts[1].template, warned |-> FALSE]
         [] Len(active_prompts) > 1 ->
              [name |-> active_prompts[Len(active_prompts)].name,
               template |-> active_prompts[Len(active_prompts)].template,
               warned |-> TRUE]
         [] OTHER ->
              IF prompts /= <<>>
              THEN [name |-> prompts[1].name, template |-> prompts[1].template,
                    warned |-> TRUE]
              ELSE [name |-> None, template |-> None, warned |-> FALSE]

\* get_active_prompt: the pair (name, template) and whether a warning was
\* logged
get_active_prompt(prompts) ==
    LET active_prompts == SelectSeq(prompts, LAMBDA e : e.active)
    IN CASE Len(active_prompts) = 1 ->
              [name |-> active_prompts[1].name,
               template |-> active_prompts[1].template, warned |-> FALSE]
         [] Len(active_prompts) > 1 ->
              [name |-> active_prompts[1].name,
               template |-> active_prompts[1].template, warned |-> TRUE]
         [] OTHER ->
              IF prompts /= <<>>
              THEN [name |-> prompts[1].name, template |-> prompts[1].template,
                    warned |-> TRUE]
              ELSE [name |-> None, template |-> None, warned |-> FALSE]

\* no run of summarize_day
NoSummary ==
    [pc |-> "idle", date_range |-> <<>>, returned |-> <<NoDate, NoDate>>,
     start_date |-> NoDate, end_date |-> NoDate, prompts |-> <<>>,
     prompt_name |-> None, prompt_template |-> None, warned |-> FALSE,
     transcriptions |-> <<>>, output_path |-> FALSE,
     sorted_transcriptions |-> <<>>, api_calls |-> <<>>,
     summarized_content |-> None, output |-> "old", ret |-> None]

\* what get_transcriptions_by_date_range can return: rows newest first
QueryResults ==
    {<<>>, <<[id |-> 1, created_at |-> 1]>>,
     <<[id |-> 2, created_at |-> 2], [id |-> 1, created_at |-> 1]>>}

\* sorted() leaving the rows in the order of the query
ByCreatedAt_Unsorted(rows) == rows

\* sorted(transcriptions, key=lambda x: x['created_at'] ...): ascending, rows
\* of equal key in the order of the list
RECURSIVE ByCreatedAt(_)
ByCreatedAt(rows) ==
    IF rows = <<>> THEN <<>>
    ELSE LET n == Len(rows)
             x == rows[n]
             front == ByCreatedAt(SubSeq(rows, 1, n - 1))
             at == Cardinality({k \in 1..(n - 1) :
                                   front[k].created_at <= x.created_at})
         IN SubSeq(front, 1, at) \o <<x>> \o SubSeq(front, at + 1, n - 1)

\* start_date, end_date = get_date_range(config)
summarize_day_range ==
    /\ sd.pc = "start"
    /\ LET r == get_date_range(sd.date_range)
       IN sd' = [sd EXCEPT !.pc = "ranged", !.returned = r,
                           !.start_date = r[1], !.end_date = r[2]]
    /\ UNCHANGED <<ag, dbVars, routerVars, procVars, exVars, trVars, dlVars>>

\* the adjustment leaving end_date at the start of its day
summarize_day_adjust_Midnight ==
    /\ sd.pc = "ranged"
    /\ sd' = [sd EXCEPT !.pc = "adjusted",
                        !.start_date = DateTime(sd.start_date.date, 0),
                        !.end_date = DateTime(sd.end_date.date, 0)]
    /\ UNCHANGED <<ag, dbVars, routerVars, procVars, exVars, trVars, dlVars>>

\* "Adjust dates to include full days"
summarize_day_adjust ==
    /\ sd.pc = "ranged"
    /\ sd' = [sd EXCEPT !.pc = "adjusted",
                        !.start_date = DateTime(sd.start_date.date, 0),
                        !.end_date = DateTime(sd.end_date.date, 235959)]
    /\ UNCHANGED <<ag, dbVars, routerVars, procVars, exVars, trVars, dlVars>>

\* transcriptions = get_transcriptions_by_date_range(start_date, end_date),
\* which absorbs its errors; without transcriptions or without an output
\* path the run returns False
summarize_day_fetch ==
    /\ sd.pc = "adjusted"
    /\ \E transcriptions \in QueryResults, output_path \in BOOLEAN :
          sd' = IF transcriptions = <<>>
                THEN [sd EXCEPT !.pc = "done", !.ret = "False"]
                ELSE IF ~output_path
                THEN [sd EXCEPT !.pc = "done", !.ret = "False",
                                !.transcriptions = transcriptions]
                ELSE [sd EXCEPT !.pc = "fetched",
                                !.transcriptions = transcriptions,
                                !.output_path = TRUE,
                                !.sorted_transcriptions =
                                    ByCreatedAt(transcriptions)]
    /\ UNCHANGED <<ag, dbVars, routerVars, procVars, exVars, trVars, dlVars>>

\* prompts = load_prompts(); prompt_name, prompt_template =
\* get_active_prompt(prompts); if not prompt_template: return False
summarize_day_prompt ==
    /\ sd.pc = "fetched"
    /\ \E prompts \in Prompts :
          LET r == get_active_prompt(prompts)
          IN sd' = [sd EXCEPT !.pc = IF Truthy(r.template) THEN "prompted"
                                      ELSE "done",
                              !.prompts = prompts,
                              !.prompt_name = r.name,
                              !.prompt_template = r.template,
                              !.warned = r.warned,
                              !.ret = IF Truthy(r.template) THEN @ ELSE "False"]
    /\ UNCHANGED <<ag, dbVars, routerVars, procVars, exVars, trVars, dlVars>>

\* summarized_content = process_with_openai(sorted_transcriptions, ...):
\* None without an API key, before any request, and None for a request that
\* fails; if not summarized_content: return False
summarize_day_api ==
    /\ sd.pc = "prompted"
    /\ \E outcome \in {"no_key", "error", "empty", "text"} :
          LET content == CASE outcome = "text" -> "text"
                           [] outcome = "empty" -> ""
                           [] OTHER -> None
          IN sd' = [sd EXCEPT
                      !.api_calls = IF outcome = "no_key" THEN @
                                    ELSE Append(@, sd.sorted_transcriptions),
                      !.summarized_content = content,
                      !.pc = IF Truthy(content) THEN "summarized" ELSE "done",
                      !.ret = IF Truthy(content) THEN @ ELSE "False"]
    /\ UNCHANGED <<ag, dbVars, routerVars, procVars, exVars, trVars, dlVars>>

\* with open(output_path, 'w') as f: the header and the summary are written;
\* an error before the file is open leaves it, an error after leaves it cut
summarize_day_write ==
    /\ sd.pc = "summarized"
    /\ \E result \in {"new", "truncated", "old"} :
          sd' = [sd EXCEPT !.pc = "done", !.output = result,
                           !.ret = IF result = "new" THEN "True" ELSE "False"]
    /\ UNCHANGED <<ag, dbVars, routerVars, procVars, exVars, trVars, dlVars>>

summarize_day ==
    \/ summarize_day_range
    \/ summarize_day_adjust
    \/ summarize_day_fetch
    \/ summarize_day_prompt
    \/ summarize_day_api
    \/ summarize_day_write

\* ------------------------------------------------------------ dwnload_files
\* Names of remote files: an audio file, an audio file with an upper-case
\* extension, an image and a file of no configured type.
RemoteAudio == <<"a", ".", "t">>
RemoteUpper == <<"b", ".", "T">>
RemoteImage == <<"c", ".", "u">>
RemoteOther == <<"d", ".", "d">>
RemoteNames == <<RemoteAudio, RemoteUpper, RemoteImage, RemoteOther>>

\* the include lists of the downloader's configuration
IncludeAudio == <<ExtT>>
IncludeImage == <<ExtU>>
IncludeVideo == <<ExtV>>

\* entries of target_folders: the root folder, a folder of the Drive and a
\* folder the Drive does not have
FolderRoot == <<"r", "o", "o", "t">>
FolderA == <<"A">>
FolderB == <<"B">>
TargetNames == {FolderRoot, FolderA, FolderB}

\* the folder ids of the Drive
FolderIds == {"root", "idA"}

\* os.path.splitext(item_name)[1]
Splitext(name) ==
    LET i == RFindDot(name)
    IN IF i > 0 /\ \E j \in 1..(i - 1) : name[j] /= "."
       THEN SubSeq(name, i, Len(name)) ELSE <<>>

\* the remote files: file id k has the k-th name and lies in one folder
RemoteFiles ==
    {[id |-> k, name |-> RemoteNames[k], folder |-> f] :
        k \in 1..Len(RemoteNames), f \in FolderIds}

\* CONFIG of one run
DownloadConfigs ==
    [dry_run : BOOLEAN, delete_after_download : BOOLEAN,
     DL_audio_file_types : BOOLEAN, DL_image_file_types : BOOLEAN,
     DL_video_file_types : BOOLEAN]

\* the stats dictionary of process_folder (without the per-type counts)
Stats(total, errors) ==
    [total_files |-> total, processed_files |-> 0, downloaded_files |-> 0,
     skipped_files |-> 0, error_files |-> errors, deleted_files |-> 0]

\* files().list(..., orderBy=sort_param): the files of the folder, by id
RECURSIVE Ascending(_)
Ascending(S) ==
    IF S = {} THEN <<>>
    ELSE LET first == CHOOSE x \in S : \A y \in S : x.id <= y.id
         IN <<first>> \o Ascending(S \ {first})

\* no run of the downloader
NoDownload ==
    [pc |-> "idle",
     config |-> [dry_run |-> FALSE, delete_after_download |-> FALSE,
                 DL_audio_file_types |-> TRUE, DL_image_file_types |-> TRUE,
                 DL_video_file_types |-> TRUE],
     target_folders |-> <<>>, f |-> 1, folder_id |-> None, items |-> <<>>,
     i |-> 1, stats |-> Stats(0, 0), calls |-> <<>>, visited |-> <<>>]

\* main up to the folder loop: nothing is asked of the Drive when every
\* download is disabled or the authentication fails
main_start ==
    /\ dl.pc = "start"
    /\ IF ~(dl.config.DL_audio_file_types \/ dl.config.DL_image_file_types
              \/ dl.config.DL_video_file_types)
       THEN dl' = [dl EXCEPT !.pc = "exit"]
       ELSE \E service \in BOOLEAN :
               dl' = [dl EXCEPT !.pc = IF service THEN "folder" ELSE "exit"]
    /\ UNCHANGED <<drive, downloads, gf, dbVars, routerVars, procVars, exVars, trVars, sdVars>>

\* for folder_name in target_folders: the folder id is 'root' or what
\* find_folder_by_name returns, None for a folder that is not on the Drive
\* and for a query that raises
main_folder ==
    /\ dl.pc = "folder"
    /\ IF dl.f > Len(dl.target_folders)
       THEN dl' = [dl EXCEPT !.pc = "done"]
       ELSE LET folder_name == dl.target_folders[dl.f]
            IN IF Lower(folder_name) = FolderRoot
               THEN dl' = [dl EXCEPT !.pc = "list", !.folder_id = "root"]
               ELSE \E folder_id \in (IF folder_name = FolderA THEN {"idA", None}
                                      ELSE {None}) :
                       dl' = IF folder_id = None
                             THEN [dl EXCEPT !.f = @ + 1,
                                             !.visited = Append(@, "not_found")]
                             ELSE [dl EXCEPT !.pc = "list", !.folder_id = folder_id]
    /\ UNCHANGED <<drive, downloads, gf, dbVars, routerVars, procVars, exVars, trVars, sdVars>>

\* process_folder up to the file loop: the listing may raise, which the
\* outer handler turns into the statistics of one error
process_folder_list ==
    /\ dl.pc = "list"
    /\ \E raises \in BOOLEAN :
          LET items == Ascending({x \in drive : x.folder = dl.folder_id})
          IN dl' = CASE raises ->
                          [dl EXCEPT !.pc = "folder", !.f = @ + 1,
                                     !.stats = Stats(0, 1),
                                     !.visited = Append(@, "raised")]
                     [] ~raises /\ items = <<>> ->
                          [dl EXCEPT !.pc = "folder", !.f = @ + 1,
                                     !.stats = Stats(0, 0), !.items = items,
                                     !.visited = Append(@, "processed")]
                     [] OTHER ->
                          [dl EXCEPT !.pc = "file", !.items = items, !.i = 1,
                                     !.stats = Stats(Len(items), 0)]
    /\ UNCHANGED <<drive, downloads, gf, dbVars, routerVars, procVars, exVars, trVars, sdVars>>

\* the type of a remote file and whether its type is enabled
RemoteType(item_name) ==
    LET file_ext == Lower(Splitext(item_name))
    IN CASE InList(file_ext, IncludeAudio) -> "audio"
         [] InList(file_ext, IncludeImage) -> "image"
         [] InList(file_ext, IncludeVideo) -> "video"
         [] OTHER -> None

ShouldDownload_Always(file_type, cfg) == TRUE

ShouldDownload(file_type, cfg) ==
    CASE file_type = "audio" -> cfg.DL_audio_file_types
      [] file_type = "image" -> cfg.DL_image_file_types
      [] file_type = "video" -> cfg.DL_video_file_types
      [] OTHER -> FALSE

\* What one pass of the file loop does to the statistics, the call log, the
\* downloads directory and the Drive, for a download that ends as result
\* ("success", "failed" or "raised"), opened the output file or not, and a
\* delete request that is carried out or not.
FileStep(item, result, opened, deleted, delete_anyway, dry_download) ==
    LET file_type == RemoteType(item.name)
        counted == [dl.stats EXCEPT !.processed_files = @ + 1]
        delete == dl.config.delete_after_download /\ (result = "success" \/ delete_anyway)
        download == [op |-> "download", id |-> item.id, result |-> result]
        skip == file_type = None \/ ~ShouldDownload(file_type, dl.config)
    IN CASE skip ->
              [stats |-> [counted EXCEPT !.skipped_files = @ + 1],
               calls |-> dl.calls, downloads |-> downloads, drive |-> drive]
         [] ~skip /\ dl.config.dry_run /\ ~dry_download ->
              [stats |-> [counted EXCEPT !.downloaded_files = @ + 1],
               calls |-> dl.calls, downloads |-> downloads, drive |-> drive]
         [] OTHER ->
              [stats |-> [counted EXCEPT
                            !.downloaded_files = IF result = "success" THEN @ + 1 ELSE @,
                            !.error_files = IF result = "success" THEN @ ELSE @ + 1,
                            !.deleted_files = IF delete THEN @ + 1 ELSE @],
               calls |-> dl.calls \o <<download>>
                           \o (IF delete
                               THEN <<[op |-> "delete", id |-> item.id,
                                       result |-> IF deleted THEN "success"
                                                  ELSE "failed"]>>
                               ELSE <<>>),
               downloads |-> IF result = "success" \/ opened
                             THEN downloads \cup {item.id} ELSE downloads,
               drive |-> IF delete /\ deleted THEN drive \ {item} ELSE drive]

\* the file loop deleting the remote file whatever the download reported
process_folder_file_DeleteAlways ==
    /\ dl.pc = "file"
    /\ dl.i <= Len(dl.items)
    /\ \E result \in {"success", "failed", "raised"}, opened, deleted \in BOOLEAN :
          LET r == FileStep(dl.items[dl.i], result, opened, deleted, TRUE, FALSE)
          IN /\ dl' = [dl EXCEPT !.i = @ + 1, !.stats = r.stats, !.calls = r.calls]
             /\ downloads' = r.downloads
             /\ drive' = r.drive
    /\ UNCHANGED <<gf, dbVars, routerVars, procVars, exVars, trVars, sdVars>>

\* the file loop downloading in dry-run mode
process_folder_file_DryRunDownloads ==
    /\ dl.pc = "file"
    /\ dl.i <= Len(dl.items)
    /\ \E result \in {"success", "failed", "raised"}, opened, deleted \in BOOLEAN :
          LET r == FileStep(dl.items[dl.i], result, opened, deleted, FALSE, TRUE)
          IN /\ dl' = [dl EXCEPT !.i = @ + 1, !.stats = r.stats, !.calls = r.calls]
             /\ downloads' = r.downloads
             /\ drive' = r.drive
    /\ UNCHANGED <<gf, dbVars, routerVars, procVars, exVars, trVars, sdVars>>

\* the file loop leaving the folder at the first download that fails
process_folder_file_StopAtError ==
    /\ dl.pc = "file"
    /\ dl.i <= Len(dl.items)
    /\ \E result \in {"success", "failed", "raised"}, opened, deleted \in BOOLEAN :
          LET r == FileStep(dl.items[dl.i], result, opened, deleted, FALSE, FALSE)
          IN /\ dl' = [dl EXCEPT
                         !.i = IF r.stats.error_files > dl.stats.error_files
                               THEN Len(dl.items) + 1 ELSE @ + 1,
                         !.stats = r.stats, !.calls = r.calls]
             /\ downloads' = r.downloads
             /\ drive' = r.drive
    /\ UNCHANGED <<gf, dbVars, routerVars, procVars, exVars, trVars, sdVars>>

\* One pass of `for item in items`.  download_file opens the output file
\* before it asks for the content and turns every Exception into a result
\* without success; the handler of process_folder covers a download_file
\* that raises.  delete_file absorbs its errors and its result is not read.
process_folder_file ==
    /\ dl.pc = "file"
    /\ dl.i <= Len(dl.items)
    /\ \E result \in {"success", "failed", "raised"}, opened, deleted \in BOOLEAN :
          LET r == FileStep(dl.items[dl.i], result, opened, deleted, FALSE, FALSE)
          IN /\ dl' = [dl EXCEPT !.i = @ + 1, !.stats = r.stats, !.calls = r.calls]
             /\ downloads' = r.downloads
             /\ drive' = r.drive
    /\ UNCHANGED <<gf, dbVars, routerVars, procVars, exVars, trVars, sdVars>>

\* return stats, back in the folder loop of main
process_folder_return ==
    /\ dl.pc = "file"
    /\ dl.i > Len(dl.items)
    /\ dl' = [dl EXCEPT !.pc = "folder", !.f = @ + 1,
                        !.visited = Append(@, "processed")]
    /\ UNCHANGED <<drive, downloads, gf, dbVars, routerVars, procVars, exVars, trVars, sdVars>>

process_folder ==
    \/ process_folder_list
    \/ process_folder_file
    \/ process_folder_return

main ==
    \/ main_start
    \/ main_folder

\* ----------------------------------------- generate_filename_with_timestamp
\* datetime.now() with its microseconds
Instant(date, time, micro) == [date |-> date, time |-> time, micro |-> micro]
Instants ==
    {Instant(20240102, 30405, 6), Instant(20241231, 235959, 999999),
     Instant(20261101, 90000, 0)}

\* the timestamp_format argument: None or a string
NoFormat == [given |-> FALSE, text |-> <<>>]
Format(text) == [given |-> TRUE, text |-> text]
TimestampFormats ==
    {NoFormat, Format(<<>>), Format(<<"%", "Y", "%", "m", "%", "d">>),
     Format(<<"%", "Y", "%", "m", "%", "d", "_", "%", "H", "%", "M", "%", "S",
              "_", "%", "f">>),
     Format(<<"%", "H", "h">>), Format(<<"v">>), Format(<<"%", "%">>)}

\* n in decimal, filled with zeros to the width
Padded(n, width) ==
    LET digits == Digits(n)
    IN [k \in 1..(width - Len(digits)) |-> "0"] \o digits

\* what strftime writes for the directive %ch
Directive(ch, now) ==
    CASE ch = "Y" -> Padded(now.date \div 10000, 4)
      [] ch = "m" -> Padded((now.date \div 100) % 100, 2)
      [] ch = "d" -> Padded(now.date % 100, 2)
      [] ch = "H" -> Padded(now.time \div 10000, 2)
      [] ch = "M" -> Padded((now.time \div 100) % 100, 2)
      [] ch = "S" -> Padded(now.time % 100, 2)
      [] ch = "f" -> Padded(now.micro, 6)
      [] ch = "%" -> <<"%">>
      [] OTHER -> <<"%", ch>>

\* datetime.strftime(format)
RECURSIVE Strftime(_, _)
Strftime(now, format) ==
    IF format = <<>> THEN <<>>
    ELSE IF format[1] = "%" /\ Len(format) >= 2
    THEN Directive(format[2], now) \o Strftime(now, SubSeq(format, 3, Len(format)))
    ELSE <<format[1]>> \o Strftime(now, SubSeq(format, 2, Len(format)))

\* generate_filename_with_timestamp without the separator
generate_filename_with_timestamp_Glued(filename, timestamp_format, now) ==
    IF ~timestamp_format.given \/ timestamp_format.text = <<>>
    THEN filename
    ELSE Strftime(now, timestamp_format.text) \o filename

\* generate_filename_with_timestamp(filename, timestamp_format) at time now
generate_filename_with_timestamp(filename, timestamp_format, now) ==
    IF ~timestamp_format.given \/ timestamp_format.text = <<>>
    THEN filename
    ELSE Strftime(now, timestamp_format.text) \o <<"_">> \o filename

\* no call of generate_filename_with_timestamp
NoFilename ==
    [pc |-> "idle", filename |-> <<>>, timestamp_format |-> NoFormat,
     now |-> Instant(0, 0, 0), result |-> <<>>]

\* the call and its return value
generate_filename ==
    /\ gf.pc = "call"
    /\ gf' = [gf EXCEPT !.pc = "returned",
                        !.result = generate_filename_with_timestamp(
                                      gf.filename, gf.timestamp_format, gf.now)]
    /\ UNCHANGED <<drive, dl, downloads, dbVars, routerVars, procVars, exVars, trVars, sdVars>>

\* ------------------------------------------- process_with_openai_assistant
\* the statuses a remote run reports
RunStatuses == {"queued", "in_progress", "completed", "failed", "cancelled", "expired"}

\* the statuses that end the polling loop
Terminal == {"completed", "failed", "cancelled", "expired"}

\* thread_retention_days of openai_config.json
RetentionDays == {0, 1}

\* the identifiers openai_config.json holds; 0 stands for an absent one
ConfigFile(assistant_id, thread_id) ==
    [assistant_id |-> assistant_id, thread_id |-> thread_id]

\* no run of the assistant-based summarizer
NoAgent ==
    [pc |-> "idle", runs |-> 0, now |-> 0, api_key |-> FALSE, retention_days |-> 0,
     file |-> ConfigFile(0, 0), assistants |-> 0, threads |-> <<>>,
     assistant_id |-> 0, thread_id |-> 0, loaded |-> ConfigFile(0, 0),
     checked |-> "none", days |-> 0, new_thread |-> FALSE,
     message |-> [thread |-> 0, file |-> ConfigFile(0, 0)],
     run |-> [thread |-> 0, assistant |-> 0],
     status |-> "none", polls |-> 0, raised |-> FALSE, result |-> "none"]

\* return value of process_with_openai_assistant; caught tells the outer
\* except clause produced it
AgentReturn(a, result, caught) ==
    [a EXCEPT !.pc = "returned", !.result = result, !.raised = caught]

\* (datetime.now() - thread_created_at).days
days_since_creation(now, created_at) == (now - created_at) \div TicksPerDay

\* the api key test and the assistant: taken from the configuration, or created
\* and written to openai_config.json
process_with_openai_assistant_assistant ==
    /\ ag.pc = "call"
    /\ IF ~ag.api_key
       THEN ag' = AgentReturn(ag, None, FALSE)
       ELSE IF ag.loaded.assistant_id /= 0
       THEN ag' = [ag EXCEPT !.pc = "thread", !.assistant_id = ag.loaded.assistant_id]
       ELSE \E created \in BOOLEAN, written \in BOOLEAN :
              LET id == ag.assistants + 1
              IN IF ~created
                 THEN ag' = AgentReturn(ag, None, TRUE)
                 ELSE IF ~written
                 THEN ag' = AgentReturn([ag EXCEPT !.assistants = id,
                                                   !.assistant_id = id], None, TRUE)
                 ELSE ag' = [ag EXCEPT !.pc = "thread", !.assistants = id,
                                       !.assistant_id = id,
                                       !.file.assistant_id = id]
    /\ UNCHANGED <<sd, dbVars, routerVars, procVars, exVars, trVars, dlVars>>

\* the thread: the persisted one while it is young enough, else a new one
\* written to openai_config.json
process_with_openai_assistant_thread ==
    /\ ag.pc = "thread"
    /\ \E retrieved \in BOOLEAN, created \in BOOLEAN, written \in BOOLEAN :
          LET thread_id == ag.loaded.thread_id
              known == thread_id /= 0
              age == IF known /\ retrieved
                     THEN days_since_creation(ag.now, ag.threads[thread_id])
                     ELSE 0
              thread_needs_rotation ==
                  known /\ (~retrieved \/ age > ag.retention_days)
              a == [ag EXCEPT !.checked = IF ~known THEN "none"
                                          ELSE IF retrieved THEN "age" ELSE "error",
                              !.days = age]
              id == Len(ag.threads) + 1
          IN /\ ~known => retrieved
             /\ (known /\ ~thread_needs_rotation) => (created /\ written)
             /\ ~created => written
             /\ IF known /\ ~thread_needs_rotation
                THEN ag' = [a EXCEPT !.pc = "message", !.thread_id = thread_id]
                ELSE IF ~created
                THEN ag' = AgentReturn(a, None, TRUE)
                ELSE IF ~written
                THEN ag' = AgentReturn([a EXCEPT !.threads = Append(@, ag.now),
                                                 !.thread_id = id,
                                                 !.new_thread = TRUE], None, TRUE)
                ELSE ag' = [a EXCEPT !.pc = "message",
                                     !.threads = Append(@, ag.now),
                                     !.thread_id = id, !.new_thread = TRUE,
                                     !.file.thread_id = id]
    /\ UNCHANGED <<sd, dbVars, routerVars, procVars, exVars, trVars, dlVars>>

\* client.beta.threads.messages.create
process_with_openai_assistant_message ==
    /\ ag.pc = "message"
    /\ \E sent \in BOOLEAN :
          IF sent
          THEN ag' = [ag EXCEPT !.pc = "run",
                                !.message = [thread |-> ag.thread_id, file |-> ag.file]]
          ELSE ag' = AgentReturn(ag, None, TRUE)
    /\ UNCHANGED <<sd, dbVars, routerVars, procVars, exVars, trVars, dlVars>>

\* client.beta.threads.runs.create
process_with_openai_assistant_run ==
    /\ ag.pc = "run"
    /\ \E started \in BOOLEAN :
          IF started
          THEN ag' = [ag EXCEPT !.pc = "retrieve",
                                !.run = [thread |-> ag.thread_id,
                                         assistant |-> ag.assistant_id]]
          ELSE ag' = AgentReturn(ag, None, TRUE)
    /\ UNCHANGED <<sd, dbVars, routerVars, procVars, exVars, trVars, dlVars>>

\* the first client.beta.threads.runs.retrieve
process_with_openai_assistant_retrieve ==
    /\ ag.pc = "retrieve"
    /\ \/ \E status \in RunStatuses : ag' = [ag EXCEPT !.pc = "poll", !.status = status]
       \/ ag' = AgentReturn(ag, None, TRUE)
    /\ UNCHANGED <<sd, dbVars, routerVars, procVars, exVars, trVars, dlVars>>

\* the polling loop with a limit on its iterations
process_with_openai_assistant_poll_Limited ==
    /\ ag.pc = "poll"
    /\ ag.status \notin Terminal
    /\ IF ag.polls >= MaxPolls
       THEN ag' = AgentReturn(ag, None, FALSE)
       ELSE \/ \E status \in RunStatuses :
                 ag' = [ag EXCEPT !.status = status, !.polls = Min(@ + 1, MaxPolls)]
            \/ ag' = AgentReturn(ag, None, TRUE)
    /\ UNCHANGED <<sd, dbVars, routerVars, procVars, exVars, trVars, dlVars>>

\* one iteration of the polling loop: the status is not final, so the run is
\* retrieved again; polls counts the iterations up to MaxPolls
process_with_openai_assistant_poll ==
    /\ ag.pc = "poll"
    /\ ag.status \notin Terminal
    /\ \/ \E status \in RunStatuses :
             ag' = [ag EXCEPT !.status = status, !.polls = Min(@ + 1, MaxPolls)]
       \/ ag' = AgentReturn(ag, None, TRUE)
    /\ UNCHANGED <<sd, dbVars, routerVars, procVars, exVars, trVars, dlVars>>

\* after the loop: None unless completed, else the first assistant message
process_with_openai_assistant_response ==
    /\ ag.pc = "poll"
    /\ ag.status \in Terminal
    /\ IF ag.status /= "completed"
       THEN ag' = AgentReturn(ag, None, FALSE)
       ELSE \E listing \in {"raised", "no_assistant_message", "content"} :
              ag' = CASE listing = "raised" -> AgentReturn(ag, None, TRUE)
                      [] listing = "no_assistant_message" -> AgentReturn(ag, None, FALSE)
                      [] OTHER -> AgentReturn(ag, "content", FALSE)
    /\ UNCHANGED <<sd, dbVars, routerVars, procVars, exVars, trVars, dlVars>>

process_with_openai_assistant ==
    \/ process_with_openai_assistant_assistant
    \/ process_with_openai_assistant_thread
    \/ process_with_openai_assistant_message
    \/ process_with_openai_assistant_run
    \/ process_with_openai_assistant_retrieve
    \/ process_with_openai_assistant_poll
    \/ process_with_openai_assistant_response

\* the script is run again, some time later: load_openai_config reads the
\* file the earlier runs left
agent_summarize_day ==
    /\ ag.pc = "returned"
    /\ ag.runs < MaxRuns
    /\ \E later \in 0..(MaxClock - ag.now), api_key \in BOOLEAN :
          ag' = [NoAgent EXCEPT !.pc = "call", !.runs = ag.runs + 1,
                                !.now = ag.now + later, !.api_key = api_key,
                                !.retention_days = ag.retention_days,
                                !.file = ag.file, !.loaded = ag.file,
                                !.assistants = ag.assistants,
                                !.threads = ag.threads]
    /\ UNCHANGED <<sd, dbVars, routerVars, procVars, exVars, trVars, dlVars>>

\* ------------------------------------------------- the scripts' exit status
\* what opening and parsing a configuration file can give
FileStates == {"ok", "missing", "unreadable", "invalid"}

\* the two scripts built on summarize_day()
Summarizers == {"summarize_day", "agent_summarize_day"}

\* no script running; status is the exit status of the process, -1 before
\* it ends
NoScript ==
    [script |-> "none", pc |-> "idle", config |-> "ok", openai_config |-> "ok",
     prompts |-> "ok", credentials |-> TRUE, work |-> TRUE, fails |-> FALSE,
     status |-> -1]

\* the process ends with this status
Exit(e, status) == [e EXCEPT !.pc = "exit", !.status = status]

\* dwnload_files at import: the configuration is loaded at module level;
\* sys.exit(1) for a missing or invalid file, a traceback for an unreadable one
dwnload_files_load ==
    /\ ex.script = "dwnload_files"
    /\ ex.pc = "load"
    /\ ex' = IF ex.config /= "ok" THEN Exit(ex, 1) ELSE [ex EXCEPT !.pc = "main"]
    /\ UNCHANGED <<dbVars, routerVars, procVars, trVars, sdVars, dlVars>>

\* dwnload_files.main(): every path returns, one of them after logging the
\* exception, and the module ends after the call
dwnload_files_main ==
    /\ ex.script = "dwnload_files"
    /\ ex.pc = "main"
    /\ ex' = IF ~ex.credentials THEN Exit(ex, 0)
             ELSE IF ~ex.work THEN Exit(ex, 0)
             ELSE IF ex.fails THEN Exit(ex, 0)
             ELSE Exit(ex, 0)
    /\ UNCHANGED <<dbVars, routerVars, procVars, trVars, sdVars, dlVars>>

\* mv_files: exit(main()), main returns 1 from its except clause and 0 otherwise
mv_files_main ==
    /\ ex.script = "mv_files"
    /\ ex.pc = "main"
    /\ ex' = IF ex.config /= "ok" THEN Exit(ex, 1)
             ELSE IF ex.fails THEN Exit(ex, 1)
             ELSE Exit(ex, 0)
    /\ UNCHANGED <<dbVars, routerVars, procVars, trVars, sdVars, dlVars>>

\* run_transcribe: load_config
run_transcribe_config ==
    /\ ex.script = "transcribe_raw_audio"
    /\ ex.pc = "main"
    /\ ex' = IF ex.config /= "ok" THEN Exit(ex, 1) ELSE [ex EXCEPT !.pc = "client"]
    /\ UNCHANGED <<dbVars, routerVars, procVars, trVars, sdVars, dlVars>>

\* run_transcribe: get_openai_client and the transcription
run_transcribe_client ==
    /\ ex.script = "transcribe_raw_audio"
    /\ ex.pc = "client"
    /\ ex' = IF ~ex.credentials THEN Exit(ex, 1)
             ELSE IF ex.fails THEN Exit(ex, 1)
             ELSE Exit(ex, 0)
    /\ UNCHANGED <<dbVars, routerVars, procVars, trVars, sdVars, dlVars>>

\* summarize_day() from its start to the end of the process: its value is
\* dropped, so the status is 0 unless one of the loaders calls sys.exit(1)
SummarizerStep(e) ==
    CASE e.pc = "main" ->
              IF e.config /= "ok" THEN Exit(e, 1)
              ELSE IF ~e.work THEN Exit(e, 0)
              ELSE [e EXCEPT !.pc = "openai"]
      [] e.pc = "openai" ->
              IF e.openai_config /= "ok" \/ e.prompts /= "ok" THEN Exit(e, 1)
              ELSE [e EXCEPT !.pc = "process"]
      [] OTHER ->
              IF ~e.credentials THEN Exit(e, 0)
              ELSE IF e.fails THEN Exit(e, 0)
              ELSE Exit(e, 0)

\* summarize_day.py run as a script
summarize_day_script ==
    /\ ex.script = "summarize_day"
    /\ ex.pc \in {"main", "openai", "process"}
    /\ ex' = SummarizerStep(ex)
    /\ UNCHANGED <<dbVars, routerVars, procVars, trVars, sdVars, dlVars>>

\* agent_summarize_day.py run as a script
agent_summarize_day_script ==
    /\ ex.script = "agent_summarize_day"
    /\ ex.pc \in {"main", "openai", "process"}
    /\ ex' = SummarizerStep(ex)
    /\ UNCHANGED <<dbVars, routerVars, procVars, trVars, sdVars, dlVars>>

\* ========================================================== specifications
DbInit ==
    /\ connection_pool = 0
    /\ poolCount = 0
    /\ used = 0
    /\ db = EmptyDb
    /\ stack = <<>>
    /\ exc = FALSE
    /\ entry = NoEntry
    /\ raised = FALSE
    /\ saved = {}
    /\ initRan = FALSE

RouterIdle ==
    /\ dest = {}
    /\ mf = NoMove
    /\ moves = 0

\* the other programs are not running
TranscribeIdle ==
    /\ audio_dir = {}
    /\ tr = NoRun

SummarizeIdle ==
    /\ sd = NoSummary
    /\ ag = NoAgent

DownloadIdle ==
    /\ drive = {}
    /\ dl = NoDownload
    /\ downloads = {}
    /\ gf = NoFilename

\* no script is being executed
ScriptIdle == ex = NoScript

\* a configuration is loaded, no file is waiting
ProcessIdle ==
    /\ source = {}
    /\ config = CHOOSE c \in Configs : \A k \in DOMAIN Categories : c[Categories[k]].enabled /\ ~c.delete_source_after_move
    /\ gdrive = GdriveFile("missing", JsonAbsent, JsonAbsent, JsonAbsent)
    /\ pf = NoProcess(config)

\* the database layer, on a server with or without the schema
Init ==
    /\ DbInit
    /\ ScriptIdle
    /\ schema \in BOOLEAN
    /\ RouterIdle
    /\ ProcessIdle
    /\ TranscribeIdle
    /\ SummarizeIdle
    /\ DownloadIdle

Next ==
    \/ initialize_db
    \/ get_connection
    \/ create_tables
    \/ save_transcription
    \/ get_transcription
    \/ get_latest_transcriptions
    \/ get_transcriptions_by_date_range
    \/ close_all_connections
    \/ save_optimized_transcription
    \/ get_latest_optimized_transcriptions
    \/ get_optimized_transcriptions_by_date

Spec == Init /\ [][Next]_vars

\* the file router's move_file, into a directory that holds any of PreFiles
RouterInit ==
    /\ DbInit
    /\ ScriptIdle
    /\ schema = FALSE
    /\ dest \in SUBSET PreFiles
    /\ mf = NoMove
    /\ moves = 0
    /\ ProcessIdle
    /\ TranscribeIdle
    /\ SummarizeIdle
    /\ DownloadIdle

RouterNext == move_file

SpecRouter == RouterInit /\ [][RouterNext]_vars

\* process_files on a source directory of at most MaxFiles entries, under
\* every local configuration and every state of the downloader's file
ProcessInit ==
    /\ DbInit
    /\ ScriptIdle
    /\ schema = FALSE
    /\ dest \in {{}, {[name |-> NameA, data |-> 0]}}
    /\ mf = NoMove
    /\ moves = 0
    /\ source \in {d \in SUBSET SourceEntries : Cardinality(d) <= MaxFiles}
    /\ config \in Configs
    /\ gdrive \in GdriveFiles
    /\ pf = NoProcess(config)
    /\ TranscribeIdle
    /\ SummarizeIdle
    /\ DownloadIdle

ProcessNext ==
    \/ process_files
    \/ move_file_path
    \/ move_file_while
    \/ move_file_copy

SpecProcess == ProcessInit /\ [][ProcessNext]_vars

\* run_transcribe on a downloads directory of at most MaxAudio files
TranscribeInit ==
    /\ DbInit
    /\ ScriptIdle
    /\ schema = FALSE
    /\ RouterIdle
    /\ ProcessIdle
    /\ SummarizeIdle
    /\ DownloadIdle
    /\ \E names \in SUBSET AudioNames :
          /\ Cardinality(names) <= MaxAudio
          /\ \E ctime \in [names -> CTimes] :
                audio_dir = {[name |-> n, ctime |-> ctime[n]] : n \in names}
    /\ \E found \in BOOLEAN, exts \in AudioExtensions :
          /\ ~found => audio_dir = {}
          /\ tr = [NoRun EXCEPT !.pc = "start", !.found = found,
                                !.audio_extensions = exts]

TranscribeNext ==
    \/ get_audio_files
    \/ process_audio_files

SpecTranscribe == TranscribeInit /\ [][TranscribeNext]_vars

\* summarize_day on a configured date range of at most MaxRange entries
SummarizeInit ==
    /\ DbInit
    /\ ScriptIdle
    /\ schema = FALSE
    /\ RouterIdle
    /\ ProcessIdle
    /\ TranscribeIdle
    /\ DownloadIdle
    /\ ag = NoAgent
    /\ \E date_range \in DateRanges :
          sd = [NoSummary EXCEPT !.pc = "start", !.date_range = date_range]

SummarizeNext == summarize_day

SpecSummarize == SummarizeInit /\ [][SummarizeNext]_vars

\* main of the downloader on a Drive of at most MaxItems files and at most
\* MaxFolders target folders
DownloadInit ==
    /\ DbInit
    /\ ScriptIdle
    /\ schema = FALSE
    /\ RouterIdle
    /\ ProcessIdle
    /\ TranscribeIdle
    /\ SummarizeIdle
    /\ drive \in {S \in SUBSET RemoteFiles :
                    /\ Cardinality(S) <= MaxItems
                    /\ \A x, y \in S : x.id = y.id => x = y}
    /\ downloads = {}
    /\ gf = NoFilename
    /\ \E cfg \in DownloadConfigs,
          target_folders \in ListsUpTo(TargetNames, MaxFolders) :
          dl = [NoDownload EXCEPT !.pc = "start", !.config = cfg,
                                  !.target_folders = target_folders]

DownloadNext ==
    \/ main
    \/ process_folder

SpecDownload == DownloadInit /\ [][DownloadNext]_vars

\* generate_filename_with_timestamp on a file name, a format and a time
FilenameInit ==
    /\ DbInit
    /\ ScriptIdle
    /\ schema = FALSE
    /\ RouterIdle
    /\ ProcessIdle
    /\ TranscribeIdle
    /\ SummarizeIdle
    /\ drive = {}
    /\ dl = NoDownload
    /\ downloads = {}
    /\ \E k \in 1..Len(RemoteNames), format \in TimestampFormats, now \in Instants :
          gf = [NoFilename EXCEPT !.pc = "call", !.filename = RemoteNames[k],
                                  !.timestamp_format = format, !.now = now]

FilenameNext == generate_filename

SpecFilename == FilenameInit /\ [][FilenameNext]_vars

\* runs of the assistant-based summarizer on one openai_config.json
AgentInit ==
    /\ DbInit
    /\ ScriptIdle
    /\ schema = FALSE
    /\ RouterIdle
    /\ ProcessIdle
    /\ TranscribeIdle
    /\ DownloadIdle
    /\ sd = NoSummary
    /\ \E api_key \in BOOLEAN, retention_days \in RetentionDays :
          ag = [NoAgent EXCEPT !.pc = "call", !.runs = 1, !.api_key = api_key,
                               !.retention_days = retention_days]

AgentNext ==
    \/ process_with_openai_assistant
    \/ agent_summarize_day

SpecAgent == AgentInit /\ [][AgentNext]_vars

\* the function is synchronous code: while one of its steps can change the
\* state, one is taken
SpecAgentLive == SpecAgent /\ WF_vars(process_with_openai_assistant)

\* one execution of one of the five scripts; the configuration files, the
\* credentials, the presence of work and a failure of the work are the inputs
SetupInit ==
    /\ DbInit
    /\ schema = FALSE
    /\ RouterIdle
    /\ ProcessIdle
    /\ TranscribeIdle
    /\ SummarizeIdle
    /\ DownloadIdle
    /\ \E script \in {"dwnload_files", "mv_files", "transcribe_raw_audio"} \cup Summarizers,
          cfg \in FileStates, openai_config \in FileStates, prompts \in FileStates,
          credentials \in BOOLEAN, work \in BOOLEAN, fails \in BOOLEAN :
          /\ script \notin Summarizers => (openai_config = "ok" /\ prompts = "ok")
          /\ script = "mv_files" => credentials
          /\ script \in {"mv_files", "transcribe_raw_audio"} => work
          /\ ex = [NoScript EXCEPT !.script = script,
                                   !.pc = IF script = "dwnload_files" THEN "load" ELSE "main",
                                   !.config = cfg, !.openai_config = openai_config,
                                   !.prompts = prompts, !.credentials = credentials,
                                   !.work = work, !.fails = fails]

SetupNext ==
    \/ dwnload_files_load
    \/ dwnload_files_main
    \/ mv_files_main
    \/ run_transcribe_config
    \/ run_transcribe_client
    \/ summarize_day_script
    \/ agent_summarize_day_script

SpecSetup == SetupInit /\ [][SetupNext]_vars

\* ================================================================== claims
\* the successful save_transcription calls that were given both a filename
\* and an audio_path
Recorded == {s \in saved : Truthy(s.filename) /\ Truthy(s.audio_path)}

\* the most recent of them for filename f
LatestFor(f) ==
    CHOOSE s \in Recorded :
        s.filename = f /\ \A q \in Recorded : q.filename = f => q.n <= s.n

\* C1: processed_files holds at most one row per filename, and the row of a
\* filename that a successful save_transcription was given together with an
\* audio_path has status 'completed' and the transcription_id that the most
\* recent such call returned.
C1_ProcessedFileUpsert ==
    /\ \A r, q \in db.processed_files : r.filename = q.filename => r = q
    /\ \A s \in Recorded :
          \E r \in db.processed_files :
             /\ r.filename = s.filename
             /\ r.status = "completed"
             /\ r.transcription_id = LatestFor(s.filename).id

\* a filename saved twice: its row points at the second transcription
C1_Witness ==
    \E s, q \in Recorded :
       /\ s.filename = q.filename /\ s.n < q.n
       /\ \E r \in db.processed_files :
             r.filename = q.filename /\ r.transcription_id = q.id

\* the category_id carried by the transcription with the given id
CategoryIdOf(id) == (CHOOSE t \in db.transcriptions : t.id = id).category_id

\* C2: categories holds at most one row per name, and two successfully
\* saved transcriptions that were given the same non-empty category name
\* carry the same category_id, which is the id of that name's row.
C2_CategoryReuse ==
    /\ \A r, q \in db.categories : r.name = q.name => r = q
    /\ \A s, q \in saved :
          Truthy(s.category) /\ s.category = q.category =>
             /\ CategoryIdOf(s.id) = CategoryIdOf(q.id)
             /\ \E c \in db.categories :
                   c.name = s.category /\ c.id = CategoryIdOf(s.id)

\* two transcriptions saved under the same category name
C2_Witness ==
    \E s, q \in saved :
       s.id /= q.id /\ Truthy(s.category) /\ s.category = q.category

C4_AppendOnly ==
    [][/\ db.transcriptions \subseteq db'.transcriptions
       /\ db.optimize_transcriptions \subseteq db'.optimize_transcriptions
       /\ \A r, q \in db'.transcriptions : r.id = q.id => r = q
       /\ \A r, q \in db'.optimize_transcriptions : r.id = q.id => r = q]_vars

\* both logs hold rows, and a later save went through
C4_Witness ==
    /\ Cardinality(db.transcriptions) >= 2
    /\ db.optimize_transcriptions /= {}
    /\ At("save_transcription", "return") /\ ~Top.failed

\* C5 as stated: when the pool cannot be created or the schema cannot be
\* established, the error propagates to the caller of initialize_db.
C5_Original ==
    (At("initialize_db", "return") /\ Top.failed) => Top.raising

\* C5: initialize_db never raises.  When the pool cannot be created or
\* create_tables raises, it returns False; otherwise it returns True, and
\* then a pool is installed and the schema exists.  create_tables itself
\* propagates its failure, to initialize_db.
C5_InitializeReturnsStatus ==
    /\ At("initialize_db", "return") =>
          /\ ~Top.raising
          /\ Top.failed => Top.val = PyBool(FALSE)
          /\ ~Top.failed =>
                Top.val = PyBool(TRUE) /\ connection_pool /= 0 /\ schema
    /\ (At("create_tables", "return") /\ Top.failed) => Top.raising

\* an initialize_db called without a pool that made the pool and then failed
\* on the schema
C5_Witness ==
    /\ At("initialize_db", "return") /\ Len(stack) = 1
    /\ Top.failed /\ Top.val = PyBool(FALSE)
    /\ entry.pool = 0 /\ connection_pool /= 0 /\ ~schema

\* C6 as stated: with no close_all_connections in between, initialize_db is
\* executed at most once, also when the first attempt failed: get_connection
\* is never about to run it after it ran.
C6_Original ==
    (At("get_connection", "start") /\ connection_pool = 0) => ~initRan

\* C6: get_connection calls initialize_db exactly when connection_pool is
\* None, and only close_all_connections sets connection_pool back to None:
\* once an initialization has installed a pool, no get_connection runs
\* initialize_db again before a close.  An initialization that installed no
\* pool is run again by the next get_connection.
C6_LazyInitialization ==
    [][/\ At("get_connection", "start") =>
             IF connection_pool = 0
             THEN /\ Len(stack') = Len(stack) + 1
                  /\ stack'[Len(stack')] = Frame("initialize_db", "start")
                  /\ initRan'
             ELSE /\ Len(stack') = Len(stack)
                  /\ stack'[Len(stack')].fn = "get_connection"
                  /\ stack'[Len(stack')].pc = "getconn"
                  /\ UNCHANGED <<connection_pool, initRan>>
       /\ (Len(stack') = Len(stack) + 1 /\ Len(stack) > 0
             /\ stack'[Len(stack')].fn = "initialize_db") =>
             (At("get_connection", "start") /\ connection_pool = 0)
       /\ (connection_pool /= 0 /\ connection_pool' = 0) =>
             (stack = <<>> /\ stack' = <<>>)]_vars

\* a get_connection that finds no pool although initialize_db has run since
\* the last close
C6_Witness ==
    At("get_connection", "start") /\ connection_pool = 0 /\ initRan

ReadFns == {"get_transcription", "get_latest_transcriptions",
            "get_transcriptions_by_date_range",
            "get_latest_optimized_transcriptions",
            "get_optimized_transcriptions_by_date"}

\* C7 as stated: every read path returns an empty sequence on a storage
\* error.
C7_Original ==
    \A fn \in ReadFns :
       (At(fn, "return") /\ Top.failed) =>
          (~Top.raising /\ Top.val = PyList(<<>>))

\* what each read path returns when its query finds no row
NoRows(fn) ==
    CASE fn = "get_transcription" -> FetchTranscription(EmptyDb, 1)
      [] fn = "get_latest_transcriptions" -> FetchLatestTranscriptions(EmptyDb, 10)
      [] fn = "get_transcriptions_by_date_range" ->
            FetchTranscriptionsByDateRange(EmptyDb, 1, MaxId)
      [] fn = "get_latest_optimized_transcriptions" -> FetchLatestOptimized(EmptyDb, 10)
      [] fn = "get_optimized_transcriptions_by_date" -> FetchOptimizedByDate(EmptyDb, 0)

\* C7: no read path propagates a storage error, and each returns on an error
\* what it returns when the query finds no row: the four list queries an
\* empty list, get_transcription None.
C7_ReadPathsAbsorbErrors ==
    \A fn \in ReadFns :
       At(fn, "return") =>
          /\ ~Top.raising
          /\ Top.failed => Top.val = NoRows(fn)
          /\ (Top.failed /\ fn /= "get_transcription") => Top.val = PyList(<<>>)
          /\ (Top.failed /\ fn = "get_transcription") => Top.val = PyNone

\* get_transcription failed on its connection, with rows in the table
C7_Witness ==
    /\ At("get_transcription", "return")
    /\ Top.failed /\ Top.conn /\ Top.val = PyNone
    /\ db.transcriptions /= {}

\* C8: at most one pooled connection is checked out at any point, and none
\* is checked out when no database-layer operation is running.  An
\* operation at its return holds exactly the connection it acquired, which
\* its finally clause returns on the normal and on the error path alike.
C8_ConnectionsReturned ==
    /\ used <= 1
    /\ stack = <<>> => used = 0
    /\ (Len(stack) = 1 /\ Top.pc = "return") =>
          used = (IF Top.conn THEN 1 ELSE 0)

\* after a successful save, a later create_tables raised to the script and
\* left no connection checked out
C8_Witness ==
    /\ stack = <<>> /\ raised
    /\ saved /= {}
    /\ connection_pool /= 0 /\ used = 0

\* C9: close_all_connections does not raise and leaves no pool, with or
\* without a pool before it; without one it changes nothing, so that a
\* second call in a row leaves the state of the first.  It touches neither
\* the tables nor the checked-out count.  A get_connection that finds no pool
\* runs initialize_db, and a pool that gets installed is a new one, never one
\* that was closed.
C9_CloseIdempotent ==
    [][/\ (stack = <<>> /\ stack' = <<>>) =>
             /\ connection_pool' = 0
             /\ ~raised'
             /\ UNCHANGED <<poolCount, used, schema, db, saved, exc, entry>>
             /\ connection_pool = 0 => UNCHANGED connection_pool
       /\ (At("get_connection", "start") /\ connection_pool = 0) =>
             stack'[Len(stack')] = Frame("initialize_db", "start")
       /\ (connection_pool' /= connection_pool /\ connection_pool' /= 0) =>
             (connection_pool' > poolCount /\ poolCount' = connection_pool')]_vars

\* a save_transcription called after a close gets its connection from the
\* second pool, made by its own get_connection
C9_Witness ==
    /\ Len(stack) = 1 /\ Top.fn = "save_transcription" /\ Top.pc = "start"
    /\ ~exc /\ used = 1
    /\ entry.pool = 0 /\ connection_pool = 2

\* the name move_file has to write name under in directory dir: name itself
\* when free, else <stem>_<k><ext> for the smallest k >= 1 that is free
FreeName(dir, name) ==
    IF ~Exists(dir, name) THEN name
    ELSE LET k == CHOOSE k \in 1..(Cardinality(dir) + 1) :
                     /\ ~Exists(dir, NewName(Stem(name), k, Suffix(name)))
                     /\ \A j \in 1..(k - 1) :
                           Exists(dir, NewName(Stem(name), j, Suffix(name)))
         IN NewName(Stem(name), k, Suffix(name))

\* C10: a file in the destination directory stays there unchanged through
\* every step of every move_file; the one file a move_file adds has the
\* source's name when that is free and else <stem>_<k><ext> for the
\* smallest k >= 1 whose name is free; and the search ends: each pass of
\* the loop raises the counter, which never exceeds the number of files in
\* the directory by more than one.
C10_NeverOverwrites ==
    [][/\ \A f \in dest : f \in dest'
       /\ dest' /= dest =>
             /\ mf.pc = "copy"
             /\ \E d \in {mf.data, -mf.data} :
                   dest' = dest \cup {[name |-> FreeName(dest, mf.file_path),
                                       data |-> d]}
             /\ ~Exists(dest, FreeName(dest, mf.file_path))
       /\ mf'.pc = "copy" => mf'.destination_path = FreeName(dest', mf'.file_path)
       /\ mf'.pc = "while" => mf'.counter <= Cardinality(dest') + 1
       /\ (mf.pc = "while" /\ mf'.pc = "while") => mf'.counter = mf.counter + 1]_vars

\* two sources named a.t, moved by two calls, are there as a.t and a_1.t
C10_Witness ==
    \E f, g \in dest :
       /\ f.name = NameA /\ g.name = NameA1
       /\ f.data > 0 /\ g.data > f.data
       /\ mf.pc = "idle" /\ mf.ret = "True"

\* the entries process_files went through
Listed == {pf.files[k] : k \in 1..Len(pf.files)}

\* the lower-cased suffix of the name is in the list of an enabled category
Recognised(name, cfg) ==
    \E k \in 1..Len(Categories) :
       /\ cfg[Categories[k]].enabled
       /\ InList(Lower(Suffix(name)), cfg[Categories[k]].extensions)

\* the file is in the destination, whole
Arrived(f) == \E g \in dest : g.data = f.data

\* C11: when process_files returns, a regular file whose extension is in no
\* enabled list is still in the source directory and no part of it is in a
\* destination, and it is in neither count; files_processed is the number
\* of the other regular files that were copied or moved, files_failed the
\* number of those that were not.
C11_SkippedNotCounted ==
    pf.pc = "done" =>
       LET regular == {f \in Listed : f.is_file}
           known == {f \in regular : Recognised(f.name, pf.merged_config)}
       IN /\ \A f \in regular \ known :
                /\ f \in source
                /\ \A g \in dest : g.data /= f.data /\ g.data /= -f.data
          /\ pf.files_processed = Cardinality({f \in known : Arrived(f)})
          /\ pf.files_failed = Cardinality({f \in known : ~Arrived(f)})
          /\ pf.files_processed + pf.files_failed = Cardinality(known)

\* a run over a file of no known type and a file whose copy failed
C11_Witness ==
    /\ pf.pc = "done"
    /\ pf.files_failed = 1 /\ pf.files_processed = 0
    /\ \E f \in Listed : f.is_file /\ ~Recognised(f.name, pf.merged_config)

\* the downloader's file holds a non-empty include-list for the category
IncludePresent(c) ==
    gdrive.file = "json" /\ HasInclude(gdrive[c]) /\ gdrive[c].include /= <<>>

\* what C12 says of the merge step, with the given condition for taking
\* the include-list of category c
MergeStep(Taken(_)) ==
    (pf.pc = "start" /\ pf'.pc /= "start") =>
       /\ \A k \in 1..Len(Categories) :
             LET c == Categories[k]
             IN /\ pf'.merged_config[c].extensions =
                      IF Taken(c) /\ config[c].enabled
                      THEN gdrive[c].include
                      ELSE config[c].extensions
                /\ pf'.merged_config[c].enabled = config[c].enabled
       /\ pf'.merged_config.delete_source_after_move =
             config.delete_source_after_move

\* C12 as stated: the merged list of a category is the include-list exactly
\* when that list is present and non-empty and the local category is enabled.
C12_Original == [][MergeStep(IncludePresent)]_vars

\* the datetime of the leftmost substring of 8 digits, an underscore and 6
\* digits that is a valid date and time, when the name has one; else the
\* creation time
StampKey(f) ==
    LET valid == {k \in 1..Len(f.name) :
                     StampAt(f.name, k) /\ StrptimeValid(SubSeq(f.name, k, k + 14))}
    IN IF valid /= {}
       THEN Strptime(SubSeq(f.name, CHOOSE k \in valid : \A j \in valid : k <= j,
                            (CHOOSE k \in valid : \A j \in valid : k <= j) + 14))
       ELSE f.ctime

\* C13: the list get_audio_files returns holds the audio files of the
\* directory in ascending order of their keys, the key of a file being the
\* valid YYYYMMDD_HHMMSS date-time its name contains, and its creation time
\* when the name contains none.
C13_SortedByStamp ==
    (tr.pc = "process" /\ tr.i = 1) =>
       /\ \A f \in audio_dir :
             (\E k \in 1..Len(tr.audio_extensions) :
                 EndsWith(f.name, tr.audio_extensions[k]))
                => \E k \in 1..Len(tr.audio_files) : tr.audio_files[k] = f
       /\ \A j, k \in 1..Len(tr.audio_files) :
             j < k => NotAfter(StampKey(tr.audio_files[j]),
                               StampKey(tr.audio_files[k]))

\* the names of the files of list at the positions in keep, in list order
RECURSIVE NamesAt(_, _)
NamesAt(list, keep) ==
    IF list = <<>> THEN <<>>
    ELSE NamesAt(SubSeq(list, 1, Len(list) - 1), keep)
            \o (IF Len(list) \in keep THEN <<list[Len(list)].name>> ELSE <<>>)

\* what C14 says of a run of process_audio_files, given the positions of
\* the files that have been submitted to the API
Transcribed(sent) ==
    LET done == 1..Len(tr.transcriptions)
    IN /\ Len(tr.transcriptions) = tr.i - 1
       /\ tr.submitted = NamesAt(tr.audio_files, sent)
       /\ tr.all_transcriptions =
             NamesAt(tr.audio_files, {k \in done : Truthy(tr.transcriptions[k])})
       /\ Len(tr.outputs) <= 1
       /\ tr.pc = "process" => tr.outputs = <<>>
       /\ tr.pc = "done" =>
             /\ tr.i = Len(tr.audio_files) + 1
             /\ tr.outputs /= <<>> =>
                   (tr.all_transcriptions /= <<>> /\ tr.outputs[1] = tr.all_transcriptions)
             /\ tr.ret = "True" <=> tr.all_transcriptions /= <<>>

\* C14 as stated: every file up to the current one has been submitted to the
\* API exactly once, in list order.
C14_Original ==
    tr.pc \in {"process", "done"} => Transcribed(1..(tr.i - 1))

\* C14: process_audio_files hands every input file to transcribe_audio_file
\* exactly once, in list order, whatever happened to the files before it.  A
\* file is submitted to the API at most once, and it is submitted whenever a
\* text came back for it; it is not submitted when it cannot be read.  The
\* combined text holds the files for which a non-empty text came back, in
\* list order, and it is written at most once, after the loop, and only if
\* it holds an entry.
C14_TranscribeEachOnce ==
    tr.pc \in {"process", "done"} =>
       /\ Len(tr.transcriptions) = tr.i - 1
       /\ \E sent \in SUBSET (1..(tr.i - 1)) :
             /\ \A k \in 1..Len(tr.transcriptions) :
                   tr.transcriptions[k] /= None => k \in sent
             /\ Transcribed(sent)

\* the first of two files failed, the second was transcribed and written
C14_Witness ==
    /\ tr.pc = "done"
    /\ tr.transcriptions = <<None, "text">>
    /\ Len(tr.submitted) = 1
    /\ tr.outputs = <<tr.all_transcriptions>>

\* a JSON number that is a date written YYYYMMDD, and the midnight it names
IsYYYYMMDD(e) ==
    /\ e.type = "int"
    /\ 10000101 <= e.value /\ e.value <= 99991231
    /\ ValidDate(e.value \div 10000, (e.value \div 100) % 100, e.value % 100)
Midnight(e) == DateTime(e.value, 0)
LastSecond(e) == DateTime(e.value, 235959)

\* the configured range has two or more entries, the first two of them valid
TwoValid ==
    /\ Len(sd.date_range) >= 2
    /\ IsYYYYMMDD(sd.date_range[1])
    /\ IsYYYYMMDD(sd.date_range[2])

\* C15 as stated: for two valid YYYYMMDD integers get_date_range returns
\* midnight of the first day and 23:59:59 of the second day.
C15_Original ==
    (sd.pc /= "start" /\ TwoValid) =>
        sd.returned = <<Midnight(sd.date_range[1]), LastSecond(sd.date_range[2])>>

\* C15: for two valid YYYYMMDD integers get_date_range returns midnight at
\* the beginning of the first day and midnight at the beginning of the second
\* day; summarize_day then moves the end to 23:59:59 of the second day, so
\* that [20240101, 20240103] is queried from 2024-01-01T00:00:00 to
\* 2024-01-03T23:59:59.
C15_FullDays ==
    (sd.pc /= "start" /\ TwoValid) =>
        /\ sd.returned = <<Midnight(sd.date_range[1]), Midnight(sd.date_range[2])>>
        /\ sd.pc /= "ranged" =>
              /\ sd.start_date = Midnight(sd.date_range[1])
              /\ sd.end_date = LastSecond(sd.date_range[2])

C15_Witness ==
    /\ sd.pc = "fetched"
    /\ sd.date_range = <<JsonInt(20240101), JsonInt(20240103)>>
    /\ sd.returned = <<DateTime(20240101, 0), DateTime(20240103, 0)>>
    /\ sd.start_date = DateTime(20240101, 0)
    /\ sd.end_date = DateTime(20240103, 235959)

\* the dates get_date_range uses: the first two entries
Used == SubSeq(sd.date_range, 1, IF Len(sd.date_range) < 2 THEN Len(sd.date_range) ELSE 2)

\* C16: get_date_range returns today for both ends when date_range is empty
\* or when one of the dates used is not a valid YYYYMMDD value; with exactly
\* one valid date it returns that date for both ends; entries beyond the
\* second do not matter.
C16_FallsBackToToday ==
    sd.pc /= "start" =>
        /\ (sd.date_range = <<>> \/ \E k \in 1..Len(Used) : ~IsYYYYMMDD(Used[k]))
              => sd.returned = <<Now, Now>>
        /\ (Len(sd.date_range) = 1 /\ IsYYYYMMDD(sd.date_range[1]))
              => sd.returned = <<Midnight(sd.date_range[1]), Midnight(sd.date_range[1])>>
        /\ Len(sd.date_range) > 2
              => sd.returned = get_date_range(Used)

\* the active entries of the collection, in collection order
ActiveAt == {k \in 1..Len(sd.prompts) : sd.prompts[k].active}
FirstActive == CHOOSE k \in ActiveAt : \A j \in ActiveAt : k <= j
Selected(k) ==
    /\ sd.prompt_name = sd.prompts[k].name
    /\ sd.prompt_template = sd.prompts[k].template

\* C17: get_active_prompt returns the only active entry without a warning,
\* the first active entry with a warning when several are active, the first
\* entry of the collection with a warning when none is active, and
\* (None, None) for an empty collection.
C17_ActivePrompt ==
    sd.pc \in {"prompted", "done"} =>
        /\ Cardinality(ActiveAt) = 1 => (Selected(FirstActive) /\ ~sd.warned)
        /\ Cardinality(ActiveAt) > 1 => (Selected(FirstActive) /\ sd.warned)
        /\ (ActiveAt = {} /\ sd.prompts /= <<>>) => (Selected(1) /\ sd.warned)
        /\ sd.prompts = <<>> =>
              (sd.prompt_name = None /\ sd.prompt_template = None)

\* two of three entries are active and the first entry is not
C17_Witness ==
    /\ sd.pc = "prompted"
    /\ Len(sd.prompts) = 3
    /\ ActiveAt = {2, 3}
    /\ sd.prompt_name = sd.prompts[2].name
    /\ sd.warned

\* the folder loop of main has dealt with every folder before the current one
FoldersInTurn ==
    /\ dl.pc \in {"folder", "list", "file"} => Len(dl.visited) = dl.f - 1
    /\ dl.pc = "done" => Len(dl.visited) = Len(dl.target_folders)
    /\ \A k \in 1..Len(dl.visited) :
          Lower(dl.target_folders[k]) = FolderRoot => dl.visited[k] /= "not_found"

\* a pass of the file loop whose download did not succeed adds one to
\* error_files and goes on to the next file of the folder
FailedDownloadCounted ==
    (/\ dl.pc = "file"
     /\ Len(dl'.calls) > Len(dl.calls)
     /\ dl'.calls[Len(dl.calls) + 1].result /= "success")
       => /\ dl'.stats.error_files = dl.stats.error_files + 1
          /\ dl'.pc = "file"
          /\ dl'.i = dl.i + 1
          /\ dl'.items = dl.items

\* C18: in main a folder that is not found, or whose processing raises, is
\* followed by the processing of the next folder of target_folders; in
\* process_folder a download that fails, by its result or by an exception,
\* adds one to error_files and the loop goes on with the next file.
C18_Isolation == []FoldersInTurn /\ [][FailedDownloadCounted]_vars

\* the first folder was not processed, the second was, and in it a download
\* failed before another file was downloaded
C18_Witness ==
    /\ dl.pc = "done"
    /\ Len(dl.visited) = 2
    /\ dl.visited[1] \in {"not_found", "raised"}
    /\ dl.visited[2] = "processed"
    /\ Len(dl.calls) = 2
    /\ dl.calls[1].result /= "success"
    /\ dl.calls[2].op = "download"
    /\ dl.stats.error_files = 1

\* C19: in dry-run mode no download and no remote delete is requested and
\* nothing is written to the downloads directory, whatever the enable flags
\* and delete_after_download are.
C19_DryRunTouchesNothing ==
    dl.config.dry_run => (dl.calls = <<>> /\ downloads = {})

\* a dry run over two files that would have been downloaded and deleted
C19_Witness ==
    /\ dl.pc = "done"
    /\ dl.config.dry_run
    /\ dl.config.delete_after_download
    /\ dl.stats.downloaded_files = 2
    /\ dl.calls = <<>>
    /\ Cardinality(drive) = 2

\* C20: a remote delete is requested only with delete_after_download set and
\* dry-run off, right after the download of the same file reported success,
\* and then after every such download.
C20_DeleteFollowsSuccess ==
    \A k \in 1..Len(dl.calls) :
       /\ dl.calls[k].op = "delete" =>
             /\ dl.config.delete_after_download
             /\ ~dl.config.dry_run
             /\ k > 1
             /\ dl.calls[k - 1] = [op |-> "download", id |-> dl.calls[k].id,
                                   result |-> "success"]
       /\ (/\ dl.calls[k].op = "download"
           /\ dl.calls[k].result = "success"
           /\ dl.config.delete_after_download) =>
             /\ k < Len(dl.calls)
             /\ dl.calls[k + 1].op = "delete"
             /\ dl.calls[k + 1].id = dl.calls[k].id

\* with delete_after_download set, a failed download is followed by a
\* successful one, and only the second file is deleted
C20_Witness ==
    /\ dl.config.delete_after_download
    /\ Len(dl.calls) = 3
    /\ dl.calls[1].result /= "success"
    /\ dl.calls[2].result = "success"
    /\ dl.calls[3].op = "delete"
    /\ dl.stats.skipped_files = 0

\* process_folder has returned its statistics, not those of its handler
FolderReturned ==
    /\ dl.pc \in {"folder", "done"}
    /\ dl.visited /= <<>>
    /\ dl.visited[Len(dl.visited)] = "processed"

\* a remote file of an unsupported extension or of a disabled type
Unwanted(item) ==
    LET ext == Lower(Splitext(item.name))
    IN \/ ~(InList(ext, IncludeAudio) \/ InList(ext, IncludeImage)
              \/ InList(ext, IncludeVideo))
       \/ InList(ext, IncludeAudio) /\ ~dl.config.DL_audio_file_types
       \/ ~InList(ext, IncludeAudio) /\ InList(ext, IncludeImage)
             /\ ~dl.config.DL_image_file_types
       \/ ~InList(ext, IncludeAudio) /\ ~InList(ext, IncludeImage)
             /\ InList(ext, IncludeVideo) /\ ~dl.config.DL_video_file_types

\* C25: when process_folder returns without a folder-level exception,
\* processed_files equals total_files, downloaded_files, skipped_files and
\* error_files add up to processed_files, skipped_files counts the files of
\* an unsupported extension or a disabled type, and an empty folder gives
\* counters of zero.
C25_CountersConsistent ==
    FolderReturned =>
        /\ dl.stats.total_files = Len(dl.items)
        /\ dl.stats.processed_files = dl.stats.total_files
        /\ dl.stats.downloaded_files + dl.stats.skipped_files
              + dl.stats.error_files = dl.stats.processed_files
        /\ dl.stats.skipped_files =
              Cardinality({k \in 1..Len(dl.items) : Unwanted(dl.items[k])})
        /\ dl.items = <<>> => dl.stats = Stats(0, 0)

\* a folder of two files: one of a disabled type, one whose download failed
C25_Witness ==
    /\ FolderReturned
    /\ dl.stats.total_files = 2
    /\ dl.stats.skipped_files = 1
    /\ dl.stats.error_files = 1
    /\ \E k \in 1..2 : Unwanted(dl.items[k]) /\ RemoteType(dl.items[k].name) /= None

\* a step that changes deleted_files within a folder adds one for a delete
\* request that was carried out, and a delete that was carried out is counted
DeleteCounted ==
    (dl.pc = "file" /\ dl'.pc = "file") =>
        LET last == dl'.calls[Len(dl'.calls)]
            deleted == /\ Len(dl'.calls) > Len(dl.calls)
                       /\ last.op = "delete"
                       /\ last.result = "success"
        IN /\ dl'.stats.deleted_files =
                 dl.stats.deleted_files + (IF deleted THEN 1 ELSE 0)
           /\ dl'.stats.deleted_files <= dl'.stats.downloaded_files

\* C29: deleted_files is incremented only when delete_file reports success,
\* so that it counts the remote files actually deleted, and it never exceeds
\* downloaded_files.
C29_DeletedCounted == [][DeleteCounted]_vars

\* C28: process_audio_files returns True only if the combined text was
\* written to the output file; it returns False without audio files, when
\* every transcription failed and when saving the output failed.
C28_SuccessMeansSaved ==
    tr.pc = "done" =>
        /\ tr.ret = "True" => tr.outputs /= <<>>
        /\ (tr.audio_files = <<>> \/ tr.all_transcriptions = <<>>
               \/ tr.outputs = <<>>) => tr.ret = "False"

\* C26: merge_config_with_gdrive_extensions leaves the configuration passed
\* to it as it was, nested extensions lists included; only the returned copy
\* carries the merged lists.
C26_CallerConfigUntouched ==
    [][(pf.pc = "start" /\ pf'.pc = "dirs") => config' = config]_vars

\* C27: in every state of the database every processed_files row refers to
\* a transcriptions row of its own filename, and every transcriptions row
\* with a category_id refers to a categories row.
C27_ReferentialIntegrity ==
    /\ \A p \in db.processed_files :
          \E t \in db.transcriptions :
             t.id = p.transcription_id /\ t.filename = p.filename
    /\ \A t \in db.transcriptions :
          t.category_id /= 0 => \E c \in db.categories : c.id = t.category_id

\* the processed_files row of a file saved twice points at the second
\* transcription, which carries the category of the first
C27_Witness ==
    /\ \E p \in db.processed_files : p.id = 1 /\ p.transcription_id = 2
    /\ \E t, u \in db.transcriptions :
          t.id = 1 /\ u.id = 2 /\ t.category_id /= 0
             /\ u.category_id = t.category_id

\* the rows of list are in ascending order of created_at
AscendingRows(list) ==
    \A j, k \in 1..Len(list) : j < k => list[j].created_at <= list[k].created_at

\* C30: the language-model API is called only once the query has returned a
\* transcription, an output path is configured and a non-empty template is
\* selected, and it is given the transcriptions in ascending order of
\* created_at; the output file is touched only after the model returned a
\* non-empty text, so a run that returns False before leaves it as it was.
C30_NothingSpentOnFailure ==
    /\ Len(sd.api_calls) <= 1
    /\ \A k \in 1..Len(sd.api_calls) :
          /\ sd.transcriptions /= <<>>
          /\ sd.output_path
          /\ Truthy(sd.prompt_template)
          /\ AscendingRows(sd.api_calls[k])
          /\ {sd.api_calls[k][j] : j \in 1..Len(sd.api_calls[k])}
                = {sd.transcriptions[j] : j \in 1..Len(sd.transcriptions)}
          /\ Len(sd.api_calls[k]) = Len(sd.transcriptions)
    /\ sd.output /= "old" => (Truthy(sd.summarized_content) /\ sd.api_calls /= <<>>)
    /\ (sd.pc = "done" /\ ~Truthy(sd.summarized_content)) =>
          (sd.ret = "False" /\ sd.output = "old")

\* the model was called with two rows the query returned newest first, and
\* returned nothing
C30_Witness ==
    /\ sd.pc = "done"
    /\ sd.ret = "False"
    /\ Len(sd.transcriptions) = 2
    /\ sd.transcriptions[1].created_at > sd.transcriptions[2].created_at
    /\ Len(sd.api_calls) = 1
    /\ sd.summarized_content = ""
    /\ sd.output = "old"

\* the date of an instant as eight digits, YYYYMMDD
Today(now) == Padded(now.date, 8)

\* C24: with a non-empty format the name returned is the current time in
\* that format, an underscore and the filename; for "%Y%m%d" it starts with
\* today's YYYYMMDD and ends with the filename.  With no format or an empty
\* one the filename is returned as it is.
C24_TimestampPrefix ==
    gf.pc = "returned" =>
        LET format == gf.timestamp_format
            stamp == Strftime(gf.now, format.text)
            n == Len(gf.result)
        IN IF format.given /\ format.text /= <<>>
           THEN /\ n = Len(stamp) + 1 + Len(gf.filename)
                /\ SubSeq(gf.result, 1, Len(stamp)) = stamp
                /\ gf.result[Len(stamp) + 1] = "_"
                /\ SubSeq(gf.result, n - Len(gf.filename) + 1, n) = gf.filename
                /\ format.text = <<"%", "Y", "%", "m", "%", "d">> =>
                      SubSeq(gf.result, 1, 8) = Today(gf.now)
           ELSE gf.result = gf.filename

\* b.T stamped with %Y%m%d on 2024-01-02
C24_Witness ==
    /\ gf.pc = "returned"
    /\ gf.filename = RemoteUpper
    /\ gf.result = <<"2", "0", "2", "4", "0", "1", "0", "2", "_", "b", ".", "T">>

\* a step of the polling loop taken on a status that is not final polls again,
\* or leaves through the except clause
PollsAgain ==
    (ag.pc = "poll" /\ ag.status \notin Terminal) =>
        \/ ag'.pc = "poll"
        \/ ag'.pc = "returned" /\ ag'.raised /\ ag'.result = None

\* what a return after the creation of the run tells about the last status
ReturnsOnFinalStatus ==
    (ag.pc = "returned" /\ ag.run.thread /= 0) =>
        /\ ~ag.raised => ag.status \in Terminal
        /\ ag.result = "content" => ag.status = "completed"
        /\ ag.status \in {"failed", "cancelled", "expired"} => ag.result = None
        /\ ag.result \in {None, "content"}

\* C22: once the run exists, process_with_openai_assistant does not return
\* while the status is outside completed, failed, cancelled, expired, unless
\* a poll raises; it polls again each time, without a limit.  A final status
\* makes it return: the text only for completed, None for the other three.
C22_PollsUntilFinal ==
    /\ []ReturnsOnFinalStatus
    /\ [][PollsAgain]_vars
    /\ (ag.pc = "poll" /\ ag.status \in Terminal) ~> (ag.pc = "returned")

\* the text returned after MaxPolls iterations of the loop
C22_Witness ==
    /\ ag.pc = "returned"
    /\ ag.polls = MaxPolls
    /\ ag.status = "completed"
    /\ ag.result = "content"

\* the run of this invocation stands on the thread the configuration named
Reused == ag.run.thread /= 0 /\ ag.run.thread = ag.loaded.thread_id

\* the run of this invocation stands on a thread this invocation created
Replaced == ag.run.thread /= 0 /\ ag.new_thread /\ ag.run.thread = Len(ag.threads)

\* the persisted thread is reused while its age is at most the retention and
\* replaced when it is older or its age cannot be retrieved
ThreadRetention ==
    (ag.run.thread /= 0 /\ ag.loaded.thread_id /= 0) =>
        /\ (ag.checked = "age" /\ ag.days <= ag.retention_days) => (Reused /\ ~ag.new_thread)
        /\ (ag.checked = "age" /\ ag.days > ag.retention_days) => Replaced
        /\ ag.checked = "error" => Replaced
        /\ ag.checked /= "none"

\* the ids the message and the run are created on are in the file by then
WrittenBeforeUse ==
    /\ ag.message.thread /= 0 =>
          /\ ag.message.file.thread_id = ag.message.thread
          /\ ag.message.file.assistant_id = ag.assistant_id
    /\ ag.run.thread /= 0 =>
          /\ ag.run.thread = ag.message.thread
          /\ ag.file = ConfigFile(ag.run.assistant, ag.run.thread)

\* one assistant at most, used by every run
OneAssistant ==
    /\ ag.assistants <= 1
    /\ ag.run.assistant \in {0, 1}

\* C23: over the invocations that share openai_config.json the assistant is
\* created at most once and reused afterwards; the persisted thread is reused
\* up to thread_retention_days whole days of age and replaced beyond, or when
\* its age cannot be retrieved; new ids are in the file before the message
\* and the run are created.
C23_SessionContinuity ==
    /\ OneAssistant
    /\ ThreadRetention
    /\ WrittenBeforeUse

\* the configuration file of the script is missing, unreadable or invalid, or
\* its credentials are missing: the Drive credentials file of the downloader,
\* the API key of the transcriber, and the API key of a summarizer that has
\* transcriptions to summarize
SetupFailure ==
    \/ ex.config /= "ok"
    \/ ex.script \in {"dwnload_files", "transcribe_raw_audio"} /\ ~ex.credentials
    \/ ex.script \in Summarizers /\ ex.work /\ ~ex.credentials

\* C21: a script that meets an unrecoverable setup failure (configuration
\* file missing or unreadable, credentials missing) exits with a non-zero
\* status; this for the downloader, the file router, the transcriber and the
\* two summarizers.
C21_SetupFailureExitsNonZero ==
    (ex.pc = "exit" /\ SetupFailure) => ex.status /= 0

====
